---- MODULE Spec2Model ----
(***************************************************************************)
(* Scenario State Tracker: the extraction pipeline, the review queue and   *)
(* the entity store (gistFiles), as one state machine.                     *)
(*                                                                         *)
(* Text is modelled as sequences of one-character strings, so that         *)
(* toLowerCase, trim, the slug regexes and String.includes are computed    *)
(* as the code computes them.  An NPC document key "npc_<slug>.json" is    *)
(* modelled by its <slug> part (a character sequence).                     *)
(***************************************************************************)
EXTENDS Integers, Sequences, FiniteSets, TLC

VARIABLES
    gistFiles,       \* the entity store: world_state.json and the npc_*.json files
    pendingQueue,    \* the review queue (sequence of Proposed Changes)
    lastMessageText, \* last processed clean text
    isExtracting,    \* busy flag of the single-message extraction call
    isRescanning,    \* busy flag of rescanHistory
    rescanAbort,     \* cooperative cancellation flag
    syncTimer,       \* TRUE while a debounced push is scheduled
    timerLeft,       \* time left on that timer, in units of PUSH_DELAY_MS / DelayTicks
    remote,          \* the files of the last write to the remote gist
    proc,            \* the async handler invocations in flight
    nextUid,         \* ids already handed out by uid()
    last             \* history: the last handler run and its side effects

vars == <<gistFiles, pendingQueue, lastMessageText, isExtracting, isRescanning,
          rescanAbort, syncTimer, timerLeft, remote, proc, nextUid, last>>

----------------------------------------------------------------------------
(* Bounds of the model *)

MaxUid == 3
MaxProcs == 2
MaxRating == 21
MaxChat == 2
InitThreshold == 3
DelayTicks == 2

(* Program constants *)

MAX_ATTEMPTS == 3
\* the length an arc event's key is cut to
EventKeyLen == 40
DefaultThreshold == 15

----------------------------------------------------------------------------
(* Text *)

Uppers == <<"A", "B", "C", "D", "E", "F", "G", "H", "I", "J", "K", "L", "M", "N", "O", "P", "Q", "R",
           "S", "T", "U", "V", "W", "X", "Y", "Z">>
Lowers == <<"a", "b", "c", "d", "e", "f", "g", "h", "i", "j", "k", "l", "m", "n", "o", "p", "q", "r",
           "s", "t", "u", "v", "w", "x", "y", "z">>
Digits == {"0", "1", "2", "3", "4", "5", "6", "7", "8", "9"}

UpperChars == {Uppers[i] : i \in 1..Len(Uppers)}
LowerOf == [c \in UpperChars |-> Lowers[CHOOSE i \in 1..Len(Uppers) : Uppers[i] = c]]
\* [a-z0-9_]
SlugChars == {Lowers[i] : i \in 1..Len(Lowers)} \cup Digits \cup {"_"}

LowerChar(c) == IF c \in UpperChars THEN LowerOf[c] ELSE c

toLowerCase(s) == [i \in 1..Len(s) |-> LowerChar(s[i])]

RECURSIVE trimStart(_)
trimStart(s) == IF s # <<>> /\ Head(s) = " " THEN trimStart(Tail(s)) ELSE s

RECURSIVE trimEnd(_)
trimEnd(s) ==
    IF s # <<>> /\ s[Len(s)] = " " THEN trimEnd(SubSeq(s, 1, Len(s) - 1)) ELSE s

trim(s) == trimEnd(trimStart(s))

\* s.replace(/\s+/g, '_'): every run of whitespace becomes one underscore
RECURSIVE replaceWsRuns(_)
replaceWsRuns(s) ==
    IF s = <<>> THEN <<>>
    ELSE IF Head(s) = " "
         THEN <<"_">> \o replaceWsRuns(trimStart(s))
         ELSE <<Head(s)>> \o replaceWsRuns(Tail(s))

IsSlugChar(c) == c \in SlugChars
\* [a-z0-9]
IsAlnum(c) == c \in SlugChars \ {"_"}

RECURSIVE skipNonAlnum(_)
skipNonAlnum(s) == IF s # <<>> /\ ~IsAlnum(Head(s)) THEN skipNonAlnum(Tail(s)) ELSE s

\* s.replace(/[^a-z0-9]+/g, '_'): every run of other characters becomes one underscore
RECURSIVE replaceNonAlnumRuns(_)
replaceNonAlnumRuns(s) ==
    IF s = <<>> THEN <<>>
    ELSE IF ~IsAlnum(Head(s))
         THEN <<"_">> \o replaceNonAlnumRuns(skipNonAlnum(s))
         ELSE <<Head(s)>> \o replaceNonAlnumRuns(Tail(s))

\* s.slice(0, n)
slice(s, n) == SubSeq(s, 1, IF Len(s) < n THEN Len(s) ELSE n)

\* c.includes(n)
includes(c, n) ==
    \E i \in 1..(Len(c) - Len(n) + 1) : SubSeq(c, i, i + Len(n) - 1) = n

\* the pattern (lower case) matches s at position i, whatever the case of s
matchesAt(s, i, pat) ==
    /\ i + Len(pat) - 1 <= Len(s)
    /\ \A k \in 1..Len(pat) : LowerChar(s[i + k - 1]) = pat[k]

\* the first position from `from` on at which the pattern matches, 0 for none
RECURSIVE indexFrom(_, _, _)
indexFrom(s, pat, from) ==
    IF from + Len(pat) - 1 > Len(s) THEN 0
    ELSE IF matchesAt(s, from, pat) THEN from
    ELSE indexFrom(s, pat, from + 1)

\* s.replace(/open[\s\S]*?close/gi, ''): left to right, every span from an
\* opening to the nearest closing after it is removed; what is removed is not
\* looked at again
RECURSIVE removeSpans(_, _, _)
removeSpans(s, open, close) ==
    LET i == indexFrom(s, open, 1)
        j == IF i = 0 THEN 0 ELSE indexFrom(s, close, i + Len(open))
    IN  IF j = 0 THEN s
        ELSE SubSeq(s, 1, i - 1)
                 \o removeSpans(SubSeq(s, j + Len(close), Len(s)), open, close)

\* the opening and the closing of the six patterns, in the order of the code;
\* the last is the fence ``` of a wst block, its character written '
StripPatterns ==
    <<[open |-> <<"<", "t", "h", "i", "n", "k", ">">>,
       close |-> <<"<", "/", "t", "h", "i", "n", "k", ">">>],
      [open |-> <<"<", "t", "h", "i", "n", "k", "i", "n", "g", ">">>,
       close |-> <<"<", "/", "t", "h", "i", "n", "k", "i", "n", "g", ">">>],
      [open |-> <<"<", "t", "h", "o", "u", "g", "h", "t", ">">>,
       close |-> <<"<", "/", "t", "h", "o", "u", "g", "h", "t", ">">>],
      [open |-> <<"<", "c", "o", "u", "n", "c", "i", "l">>,
       close |-> <<"<", "/", "c", "o", "u", "n", "c", "i", "l", ">">>],
      [open |-> <<"<", "l", "u", "m", "i", "a", "o", "o", "c", ">">>,
       close |-> <<"<", "/", "l", "u", "m", "i", "a", "o", "o", "c", ">">>],
      [open |-> <<"'", "'", "'", "w", "s", "t">>,
       close |-> <<"'", "'", "'">>]>>

RECURSIVE removeEach(_, _)
removeEach(text, patterns) ==
    IF patterns = <<>> THEN text
    ELSE removeEach(removeSpans(text, Head(patterns).open, Head(patterns).close),
                    Tail(patterns))

\* the six replacements, then trim()
stripThinkingBlocks(text) == trim(removeEach(text, StripPatterns))

\* `npc_${displayName.toLowerCase().replace(/\s+/g,'_').replace(/[^a-z0-9_]/g,'')}.json`
npcFilename(displayName) ==
    SelectSeq(replaceWsRuns(toLowerCase(displayName)), IsSlugChar)

(* The names used in the model *)
TayHeb == <<"T", "a", "y", " ", "H", "e", "b">>
Tay == <<"T", "a", "y">>
Ski == <<"S", "k", "i">>
Arm == <<"A", "r", "m">>
Bad == <<"B", "a", "d">>
NoName == <<>>
\* the text of an arc event
TheRaid == <<"T", "h", "e", " ", "R", "a", "i", "d", "!">>
\* the value of a property that is missing: not a string
Undefined == <<"undefined">>

----------------------------------------------------------------------------
(* The entity store.  gistFiles.ws is world_state.json; gistFiles.npcs is  *)
(* the npc_*.json files in Object.entries (insertion) order.  A file whose *)
(* content is not JSON is kept by fetchGistFiles as a raw string           *)
(* (raw = TRUE): it is truthy but not an object.  In an NPC document       *)
(* relationship, emotional_state and physical_state are the entries of     *)
(* current_state ("" when missing or empty) and fields holds the           *)
(* properties that knowledge changes have set, each under its path: a name *)
(* and, for the names that end in a clock reading, that reading (at).      *)
(* gistFiles.arc_events is the events of the current arc in                *)
(* arc_events.json.                                                        *)

NoDiv == [present |-> FALSE, rating |-> 0, threshold |-> 0,
          timeline_reliable |-> TRUE, logged_divergences |-> <<>>]

\* { rating: 0, threshold: 15, timeline_reliable: true, logged_divergences: [] }
FreshDiv == [present |-> TRUE, rating |-> 0, threshold |-> DefaultThreshold,
             timeline_reliable |-> TRUE, logged_divergences |-> <<>>]

\* gistFiles['world_state.json'] missing, and the {} that `|| {}` puts in its place
NoWs == [present |-> FALSE, divergence |-> NoDiv, in_world_date |-> "",
         faction_status |-> ""]

RawNpc == [raw |-> TRUE, display_name |-> <<>>, alias |-> <<>>, aliases |-> <<>>,
           relationship |-> "", emotional_state |-> "", physical_state |-> "",
           fields |-> <<>>]

\* the {} that `if (!gistFiles[file]) gistFiles[file] = {}` creates
EmptyNpc == [raw |-> FALSE, display_name |-> <<>>, alias |-> <<>>, aliases |-> <<>>,
             relationship |-> "", emotional_state |-> "", physical_state |-> "",
             fields |-> <<>>]

scaffoldNpcFile(displayName, alias) ==
    [raw |-> FALSE, display_name |-> displayName, alias |-> alias,
     aliases |-> IF alias # <<>> THEN <<alias>> ELSE <<>>,
     relationship |-> "not yet met", emotional_state |-> "", physical_state |-> "",
     fields |-> <<>>]

\* gistFiles[key] is truthy
HasFile(store, key) == \E i \in 1..Len(store.npcs) : store.npcs[i].key = key

FileIndex(store, key) ==
    CHOOSE i \in 1..Len(store.npcs) : store.npcs[i].key = key

\* gistFiles[key] = doc: an existing key keeps its place, a new one goes last
SetFile(store, key, doc) ==
    IF HasFile(store, key)
    THEN [store EXCEPT !.npcs[FileIndex(store, key)].doc = doc]
    ELSE [store EXCEPT !.npcs = Append(@, [key |-> key, doc |-> doc])]

worldState(store) == store.ws

NpcKeys(store) == {store.npcs[i].key : i \in 1..Len(store.npcs)}

----------------------------------------------------------------------------
(* Entity Resolver *)

NoKey == [ok |-> FALSE, key |-> <<>>]

Candidates(doc) ==
    LET all == <<doc.display_name, doc.alias>> \o doc.aliases
        IsTruthy(x) == x # <<>>
        kept == SelectSeq(all, IsTruthy)
    IN  [i \in 1..Len(kept) |-> toLowerCase(kept[i])]

\* a match only when the document's name contains the name looked up
MatchesNpcContaining(entry, n) ==
    /\ ~entry.doc.raw
    /\ \E i \in 1..Len(Candidates(entry.doc)) : includes(Candidates(entry.doc)[i], n)

\* candidates.some(c => c.includes(n) || n.includes(c)) for a file that is an object
MatchesNpc(entry, n) ==
    /\ ~entry.doc.raw
    /\ \E i \in 1..Len(Candidates(entry.doc)) :
           \/ includes(Candidates(entry.doc)[i], n)
           \/ includes(n, Candidates(entry.doc)[i])

resolveNpcFilename(name, store) ==
    IF name = <<>> THEN NoKey
    ELSE LET n == trim(toLowerCase(name))
             exactKey == replaceWsRuns(n)
             hits == {i \in 1..Len(store.npcs) : MatchesNpc(store.npcs[i], n)}
         IN  IF HasFile(store, exactKey) THEN [ok |-> TRUE, key |-> exactKey]
             ELSE IF hits = {} THEN NoKey
             ELSE [ok |-> TRUE,
                   key |-> store.npcs[CHOOSE i \in hits : \A j \in hits : i <= j].key]

----------------------------------------------------------------------------
(* Deltas.  A world_state delta is a sequence of [field, s, div] entries   *)
(* (the value is div for the field "divergence", s for the other fields);  *)
(* npc_relationship is a sequence of [file, rel] entries in key order.     *)

NoDelta == [divergence_delta |-> 0, in_world_date |-> "", world_state |-> <<>>,
            arc_events |-> <<>>, npc_relationship |-> <<>>, npc_current_state |-> <<>>,
            npc_knowledge |-> <<>>, new_npcs |-> <<>>]

\* a structured block without any field: {}
NoForge == [present |-> FALSE, block |-> "none", divergence_delta |-> 0,
            in_world_date |-> "", world_state |-> <<>>, arc_event |-> <<>>,
            npc_updates |-> <<>>, new_npcs |-> <<>>]

IsDateField(e) == e.field = "in_world_date"
NotDateField(e) == e.field # "in_world_date"

\* delta.npc_relationship[filename] = rel
SetRel(rels, file, rel) ==
    IF \E i \in 1..Len(rels) : rels[i].file = file
    THEN [i \in 1..Len(rels) |->
            IF rels[i].file = file THEN [file |-> file, rel |-> rel] ELSE rels[i]]
    ELSE Append(rels, [file |-> file, rel |-> rel])

\* a loop that ends at the first name it cannot resolve
RECURSIVE UpdatesToRelsUntilUnknown(_, _, _)
UpdatesToRelsUntilUnknown(updates, store, acc) ==
    IF updates = <<>> THEN acc
    ELSE LET upd == Head(updates)
             r == resolveNpcFilename(upd.name, store)
         IN  IF ~r.ok THEN acc
             ELSE UpdatesToRelsUntilUnknown(Tail(updates), store,
                      IF upd.relationship # ""
                      THEN SetRel(acc, r.key, upd.relationship)
                      ELSE acc)

\* the loop over npc_updates: unresolvable names are dropped
RECURSIVE UpdatesToRels(_, _, _)
UpdatesToRels(updates, store, acc) ==
    IF updates = <<>> THEN acc
    ELSE LET upd == Head(updates)
             r == resolveNpcFilename(upd.name, store)
         IN  UpdatesToRels(Tail(updates), store,
                 IF r.ok /\ upd.relationship # ""
                 THEN SetRel(acc, r.key, upd.relationship)
                 ELSE acc)

\* delta.npc_current_state[filename], with the states of upd that are there
SetState(states, file, upd) ==
    LET Merge(e) == [file |-> file,
                     emotional_state |-> IF upd.emotional_state # ""
                                         THEN upd.emotional_state ELSE e.emotional_state,
                     physical_state |-> IF upd.physical_state # ""
                                        THEN upd.physical_state ELSE e.physical_state]
        none == [file |-> file, emotional_state |-> "", physical_state |-> ""]
    IN  IF \E i \in 1..Len(states) : states[i].file = file
        THEN [i \in 1..Len(states) |->
                IF states[i].file = file THEN Merge(states[i]) ELSE states[i]]
        ELSE Append(states, Merge(none))

RECURSIVE UpdatesToStates(_, _, _)
UpdatesToStates(updates, store, acc) ==
    IF updates = <<>> THEN acc
    ELSE LET upd == Head(updates)
             r == resolveNpcFilename(upd.name, store)
         IN  UpdatesToStates(Tail(updates), store,
                 IF r.ok /\ (upd.emotional_state # "" \/ upd.physical_state # "")
                 THEN SetState(acc, r.key, upd)
                 ELSE acc)

\* changes[field] = value, the field being the name followed by the reading at
SetField(changes, field, at, value) ==
    LET new == [field |-> field, at |-> at, value |-> value]
    IN  IF \E i \in 1..Len(changes) : changes[i].field = field /\ changes[i].at = at
        THEN [i \in 1..Len(changes) |->
                IF changes[i].field = field /\ changes[i].at = at THEN new
                ELSE changes[i]]
        ELSE Append(changes, new)

\* delta.npc_knowledge[filename][field] = value
SetKnowledge(know, file, field, at, value) ==
    IF \E i \in 1..Len(know) : know[i].file = file
    THEN [i \in 1..Len(know) |->
            IF know[i].file = file
            THEN [know[i] EXCEPT !.changes = SetField(@, field, at, value)]
            ELSE know[i]]
    ELSE Append(know, [file |-> file, changes |-> SetField(<<>>, field, at, value)])

\* delta.npc_knowledge[filename]['learned_' + Date.now()] = upd.learned
RECURSIVE UpdatesToKnowledge(_, _, _)
UpdatesToKnowledge(updates, store, acc) ==
    IF updates = <<>> THEN acc
    ELSE LET upd == Head(updates)
             r == resolveNpcFilename(upd.name, store)
         IN  UpdatesToKnowledge(Tail(updates), store,
                 IF r.ok /\ upd.learned # ""
                 THEN SetKnowledge(acc, r.key, "learned_", upd.at, upd.learned)
                 ELSE acc)

\* forgeObj.arc_event.toLowerCase().replace(/[^a-z0-9]+/g, '_').slice(0, 40)
eventKey(arc_event) == slice(replaceNonAlnumRuns(toLowerCase(arc_event)), EventKeyLen)

\* the blocks of the model carry no npc_state_change, npc_knowledge or
\* npc_relationship of their own, and an arc_event that is text
normalizeForgeBlock(forgeObj, store) ==
    LET nested == SelectSeq(forgeObj.world_state, IsDateField)
        newDate == IF forgeObj.in_world_date # "" THEN forgeObj.in_world_date
                   ELSE IF nested # <<>> THEN nested[1].s ELSE ""
    IN  [divergence_delta |->
             IF forgeObj.divergence_delta > 0 THEN forgeObj.divergence_delta ELSE 0,
         in_world_date |-> newDate,
         world_state |-> SelectSeq(forgeObj.world_state, NotDateField),
         arc_events |->
             IF forgeObj.arc_event # <<>> /\ forgeObj.arc_event # <<"n", "u", "l", "l">>
             THEN <<[id |-> eventKey(forgeObj.arc_event), status |-> "fired-canon"]>>
             ELSE <<>>,
         npc_relationship |-> UpdatesToRels(forgeObj.npc_updates, store, <<>>),
         npc_current_state |-> UpdatesToStates(forgeObj.npc_updates, store, <<>>),
         npc_knowledge |-> UpdatesToKnowledge(forgeObj.npc_updates, store, <<>>),
         new_npcs |-> forgeObj.new_npcs]

deltaIsEmpty(delta) ==
    /\ delta.divergence_delta = 0
    /\ delta.in_world_date = ""
    /\ delta.world_state = <<>>
    /\ delta.arc_events = <<>>
    /\ delta.npc_relationship = <<>>
    /\ delta.npc_current_state = <<>>
    /\ delta.npc_knowledge = <<>>
    /\ delta.new_npcs = <<>>

----------------------------------------------------------------------------
(* Proposed Changes.  The fields n, s, div, spec are what the commit       *)
(* closure captured; old is the value read at proposal time.               *)

NoSpec == [display_name |-> <<>>, alias |-> <<>>]
NoState == [emotional_state |-> "", physical_state |-> ""]
NoOld == [n |-> 0, s |-> "", div |-> NoDiv, state |-> NoState]

Item(type, file, field, n, s, div, spec, old) ==
    [id |-> 0, type |-> type, npcFile |-> file, field |-> field, n |-> n, s |-> s,
     div |-> div, spec |-> spec, evId |-> <<>>, state |-> NoState, oldValue |-> old]

\* deepGet(npc, field): undefined ("") for a missing file, a raw one and a
\* missing property
deepGet(store, file, field, at) ==
    IF ~HasFile(store, file) THEN ""
    ELSE LET fields == store.npcs[FileIndex(store, file)].doc.fields
             Here(e) == e.field = field /\ e.at = at
         IN  IF SelectSeq(fields, Here) = <<>> THEN ""
             ELSE SelectSeq(fields, Here)[1].value

RECURSIVE Concat(_)
Concat(seqs) == IF seqs = <<>> THEN <<>> ELSE Head(seqs) \o Concat(Tail(seqs))

\* one item per file of delta.npc_knowledge, for the first of its fields
KnowItemsPerFile(delta, store) ==
    [i \in 1..Len(delta.npc_knowledge) |->
        LET e == delta.npc_knowledge[i]
            c == e.changes[1]
        IN  Item("npc_knowledge", e.file, c.field, c.at, c.value, NoDiv, NoSpec,
                 [NoOld EXCEPT !.s = deepGet(store, e.file, c.field, c.at)])]

\* one item per field of every file of delta.npc_knowledge
KnowItems(delta, store) ==
    Concat([i \in 1..Len(delta.npc_knowledge) |->
        LET e == delta.npc_knowledge[i]
        IN  [j \in 1..Len(e.changes) |->
                LET c == e.changes[j]
                IN  Item("npc_knowledge", e.file, c.field, c.at, c.value, NoDiv, NoSpec,
                         [NoOld EXCEPT !.s = deepGet(store, e.file, c.field, c.at)])]])

RelItems(delta, store) ==
    [i \in 1..Len(delta.npc_relationship) |->
        LET e == delta.npc_relationship[i]
            old == IF HasFile(store, e.file)
                   THEN store.npcs[FileIndex(store, e.file)].doc.relationship
                   ELSE ""
        IN  Item("npc_relationship", e.file, "", 0, e.rel, NoDiv, NoSpec,
                 [NoOld EXCEPT !.s = old])]

\* one item per file of delta.npc_current_state
StateItems(delta, store) ==
    [i \in 1..Len(delta.npc_current_state) |->
        LET e == delta.npc_current_state[i]
            doc == IF HasFile(store, e.file)
                   THEN store.npcs[FileIndex(store, e.file)].doc ELSE EmptyNpc
            old == [NoOld EXCEPT !.s = doc.relationship,
                                 !.state = [emotional_state |-> doc.emotional_state,
                                            physical_state |-> doc.physical_state]]
        IN  [Item("npc_state", e.file, "", 0, "", NoDiv, NoSpec, old)
                EXCEPT !.state = [emotional_state |-> e.emotional_state,
                                  physical_state |-> e.physical_state]]]

\* one item per entry of delta.arc_events
ArcItems(delta, store) ==
    [i \in 1..Len(delta.arc_events) |->
        [Item("arc_event", <<>>, "", 0, delta.arc_events[i].status, NoDiv, NoSpec, NoOld)
            EXCEPT !.evId = delta.arc_events[i].id]]

WsItems(delta, store) ==
    [i \in 1..Len(delta.world_state) |->
        LET e == delta.world_state[i]
            ws == worldState(store)
            old == CASE e.field = "divergence" -> [NoOld EXCEPT !.div = ws.divergence]
                     [] e.field = "faction_status" -> [NoOld EXCEPT !.s = ws.faction_status]
                     [] OTHER -> [NoOld EXCEPT !.s = ws.in_world_date]
        IN  Item("world_state", <<>>, e.field, 0, e.s, e.div, NoSpec, old)]

DivItems(delta, store) ==
    IF delta.divergence_delta > 0
    THEN LET cur == worldState(store).divergence.rating
         IN  <<Item("divergence", <<>>, "", delta.divergence_delta, "", NoDiv, NoSpec,
                    [NoOld EXCEPT !.n = cur])>>
    ELSE <<>>

DateItems(delta, store) ==
    IF delta.in_world_date # ""
    THEN <<Item("date_advance", <<>>, "", 0, delta.in_world_date, NoDiv, NoSpec,
                [NoOld EXCEPT !.s = worldState(store).in_world_date])>>
    ELSE <<>>

\* no entry is skipped
SkipNewNpcNever(spec, store) == FALSE

\* if (gistFiles[filename]) continue;
SkipNewNpc(spec, store) == HasFile(store, npcFilename(spec.display_name))

RECURSIVE NewNpcItems(_, _)
NewNpcItems(specs, store) ==
    IF specs = <<>> THEN <<>>
    ELSE LET spec == Head(specs)
             rest == NewNpcItems(Tail(specs), store)
         IN  IF SkipNewNpc(spec, store) THEN rest
             ELSE <<Item("new_npc", npcFilename(spec.display_name), "", 0, "", NoDiv,
                         spec, NoOld)>> \o rest

\* npcFilename(spec.display_name) on an entry without display_name:
\* undefined.toLowerCase() raises TypeError, and proposeDelta with it
ProposalRaises(delta) ==
    \E i \in 1..Len(delta.new_npcs) : delta.new_npcs[i].display_name = Undefined

\* the newItems of proposeDelta, in the order the code builds them
NewItems(delta, store) ==
    KnowItems(delta, store) \o RelItems(delta, store) \o StateItems(delta, store)
        \o ArcItems(delta, store) \o WsItems(delta, store) \o DivItems(delta, store)
        \o DateItems(delta, store) \o NewNpcItems(delta.new_npcs, store)

\* uid(): ids uid0+1, uid0+2, ... in creation order
WithIds(items, uid0) == [i \in 1..Len(items) |-> [items[i] EXCEPT !.id = uid0 + i]]

----------------------------------------------------------------------------
(* The commit actions (applyFn).  The module is an ES module, hence strict *)
(* mode: creating a property on a raw (string) document raises TypeError.  *)

Done(store) == [store |-> store, raised |-> FALSE]
Raise(store) == [store |-> store, raised |-> TRUE]

ApplyRelationship(store, item) ==
    IF ~HasFile(store, item.npcFile)
    THEN Done(SetFile(store, item.npcFile, [EmptyNpc EXCEPT !.relationship = item.s]))
    ELSE LET doc == store.npcs[FileIndex(store, item.npcFile)].doc
         IN  IF doc.raw THEN Raise(store)
             ELSE Done(SetFile(store, item.npcFile, [doc EXCEPT !.relationship = item.s]))

\* if (!gistFiles[file]) gistFiles[file] = {}; deepSet(gistFiles[file], field, newVal)
ApplyKnowledge(store, item) ==
    LET doc == IF HasFile(store, item.npcFile)
               THEN store.npcs[FileIndex(store, item.npcFile)].doc ELSE EmptyNpc
    IN  IF doc.raw THEN Raise(store)
        ELSE Done(SetFile(store, item.npcFile,
                 [doc EXCEPT !.fields = SetField(@, item.field, item.n, item.s)]))

\* a commit that merges the state into the current_state seen at proposal time
ApplyStateFromSnapshot(store, item) ==
    LET doc == IF HasFile(store, item.npcFile)
               THEN store.npcs[FileIndex(store, item.npcFile)].doc ELSE EmptyNpc
    IN  IF doc.raw THEN Raise(store)
        ELSE Done(SetFile(store, item.npcFile,
                 [doc EXCEPT
                    !.relationship = item.oldValue.s,
                    !.emotional_state = IF item.state.emotional_state # ""
                                        THEN item.state.emotional_state
                                        ELSE item.oldValue.state.emotional_state,
                    !.physical_state = IF item.state.physical_state # ""
                                       THEN item.state.physical_state
                                       ELSE item.oldValue.state.physical_state]))

\* current_state = Object.assign(current_state || {}, state)
ApplyState(store, item) ==
    LET doc == IF HasFile(store, item.npcFile)
               THEN store.npcs[FileIndex(store, item.npcFile)].doc ELSE EmptyNpc
    IN  IF doc.raw THEN Raise(store)
        ELSE Done(SetFile(store, item.npcFile,
                 [doc EXCEPT
                    !.emotional_state = IF item.state.emotional_state # ""
                                        THEN item.state.emotional_state ELSE @,
                    !.physical_state = IF item.state.physical_state # ""
                                       THEN item.state.physical_state ELSE @]))

\* if (ae[arcKey][evId]) ae[arcKey][evId].player_status = status
ApplyArcEvent(store, item) ==
    Done([store EXCEPT !.arc_events =
            [i \in 1..Len(@) |->
                IF @[i].id = item.evId
                THEN [@[i] EXCEPT !.player_status = item.s] ELSE @[i]]])

\* const ws = gistFiles['world_state.json'] || {}; ws[field] = newVal
ApplyWorldState(store, item) ==
    LET ws == [worldState(store) EXCEPT !.present = TRUE]
    IN  Done([store EXCEPT !.ws =
            CASE item.field = "divergence" -> [ws EXCEPT !.divergence = item.div]
              [] item.field = "faction_status" -> [ws EXCEPT !.faction_status = item.s]
              [] OTHER -> [ws EXCEPT !.in_world_date = item.s]])

\* the rating shown in the proposal: proposal-time rating plus the delta
NewRatingFromProposal(div, item) == item.oldValue.n + item.n

\* ws.divergence.rating = (ws.divergence.rating || 0) + delta.divergence_delta
NewRating(div, item) == div.rating + item.n

\* if (rating >= (threshold || 15)) timeline_reliable = false
MeetsThreshold(div) ==
    div.rating >= (IF div.threshold # 0 THEN div.threshold ELSE DefaultThreshold)

ApplyDivergence(store, item) ==
    IF ~store.ws.present THEN Done(store)
    ELSE LET d0 == IF store.ws.divergence.present THEN store.ws.divergence ELSE FreshDiv
             d1 == [d0 EXCEPT !.rating = NewRating(d0, item),
                              !.logged_divergences = Append(@, item.n)]
             d2 == IF MeetsThreshold(d1)
                   THEN [d1 EXCEPT !.timeline_reliable = FALSE] ELSE d1
         IN  Done([store EXCEPT !.ws.divergence = d2])

ApplyDate(store, item) ==
    Done([store EXCEPT !.ws = [worldState(store) EXCEPT !.present = TRUE,
                                                       !.in_world_date = item.s]])

ApplyNewNpc(store, item) ==
    Done(SetFile(store, item.npcFile,
                 scaffoldNpcFile(item.spec.display_name, item.spec.alias)))

applyFn(store, item) ==
    CASE item.type = "npc_knowledge" -> ApplyKnowledge(store, item)
      [] item.type = "npc_relationship" -> ApplyRelationship(store, item)
      [] item.type = "npc_state" -> ApplyState(store, item)
      [] item.type = "arc_event" -> ApplyArcEvent(store, item)
      [] item.type = "world_state" -> ApplyWorldState(store, item)
      [] item.type = "divergence" -> ApplyDivergence(store, item)
      [] item.type = "date_advance" -> ApplyDate(store, item)
      [] OTHER -> ApplyNewNpc(store, item)

\* for (const item of [...pendingQueue]) item.applyFn(): stops at the first raise.
\* Result: the store, the ids whose applyFn ran, whether the last one raised.
RECURSIVE ApplyInOrder(_, _, _)
ApplyInOrder(items, store, ran) ==
    IF items = <<>> THEN [store |-> store, ran |-> ran, raised |-> FALSE]
    ELSE LET r == applyFn(store, Head(items))
         IN  IF r.raised
             THEN [store |-> r.store, ran |-> Append(ran, Head(items).id), raised |-> TRUE]
             ELSE ApplyInOrder(Tail(items), r.store, Append(ran, Head(items).id))

\* newest first
AcceptAllNewestFirst(queue) == [i \in 1..Len(queue) |-> queue[Len(queue) + 1 - i]]

\* for (const item of [...pendingQueue]): array order, which is push order
AcceptAllOrder(queue) == queue

\* pendingQueue.findIndex(item => item.id === id), 0 for -1
findIndex(queue, id) ==
    IF \E i \in 1..Len(queue) : queue[i].id = id
    THEN CHOOSE i \in 1..Len(queue) :
             queue[i].id = id /\ \A j \in 1..(i - 1) : queue[j].id # id
    ELSE 0

\* a splice without its count argument: idx and everything after it go
spliceToEnd(queue, idx) == SubSeq(queue, 1, idx - 1)

\* pendingQueue.splice(idx, 1)
splice(queue, idx) == SubSeq(queue, 1, idx - 1) \o SubSeq(queue, idx + 1, Len(queue))

----------------------------------------------------------------------------
(* Inputs: chat messages, structured blocks, extraction responses *)

\* a chat turn: raw text = body, followed by the ```wst block when forge.present
Msg(isUser, body, forge) == [is_user |-> isUser, body |-> body, forge |-> forge]

Forge(d, ws, updates, newNpcs) ==
    [present |-> TRUE, block |-> "object", divergence_delta |-> d, in_world_date |-> "",
     world_state |-> ws, arc_event |-> <<>>, npc_updates |-> updates,
     new_npcs |-> newNpcs]

WsField(field, s, div) == [field |-> field, s |-> s, div |-> div]
\* an entry of npc_updates; at is what Date.now() reads when the normalizer
\* reaches the entry
Upd(name, rel) ==
    [name |-> name, relationship |-> rel, emotional_state |-> "", physical_state |-> "",
     learned |-> "", at |-> 0]
NpcSpec(name) == [display_name |-> name, alias |-> <<>>]

\* structured blocks
ForgeDiv(d) == Forge(d, <<>>, <<>>, <<>>)
ForgeResetDiv == Forge(0, <<WsField("divergence", "", FreshDiv)>>, <<>>, <<>>)
ForgeRel == Forge(0, <<>>, <<Upd(Ski, "ally"), Upd(Bad, "foe"), Upd(Arm, "foe")>>, <<>>)
ForgeNew == Forge(0, <<>>, <<>>, <<NpcSpec(TayHeb), NpcSpec(Ski)>>)
ForgeEmpty == Forge(0, <<>>, <<>>, <<>>)
ForgeDate == [ForgeEmpty EXCEPT !.in_world_date = "day 2"]

UserMsg == Msg(TRUE, <<"u">>, NoForge)
PlainMsg == Msg(FALSE, Ski, NoForge)
ForgeMsg(body, f) == Msg(FALSE, body, f)

\* err.message of what runExtractionCall throws: a throttled request, a request
\* that failed for another reason, and the error of line 94 of parser.js (its
\* dash written "-")
RateLimitedMessage == <<"H", "T", "T", "P", " ", "4", "2", "9">>
TypeErrorMessage ==
    <<"C", "a", "n", "n", "o", "t", " ", "r", "e", "a", "d", " ", "p", "r", "o", "p", "e", "r", "t", "i", "e", "s", " ", "o", "f", " ", "u", "n", "d", "e", "f", "i", "n", "e", "d">>
FetchFailedMessage == <<"F", "a", "i", "l", "e", "d", " ", "t", "o", " ", "f", "e", "t", "c", "h">>
UnavailableMessage ==
    <<"g", "e", "n", "e", "r", "a", "t", "e", "Q", "u", "i", "e", "t", "P",
      "r", "o", "m", "p", "t", " ", "n", "o", "t", " ", "a", "v", "a", "i",
      "l", "a", "b", "l", "e", " ", "-", " ", "c", "h", "e", "c", "k", " ",
      "S", "i", "l", "l", "y", "T", "a", "v", "e", "r", "n", " ", "v", "e",
      "r", "s", "i", "o", "n", " ", "c", "o", "m", "p", "a", "t", "i", "b",
      "i", "l", "i", "t", "y", ".">>

MessageOf(kind) ==
    CASE kind = "rate" -> RateLimitedMessage
      [] kind = "other" -> FetchFailedMessage
      [] kind = "unavailable" -> UnavailableMessage
      [] kind = "type" -> TypeErrorMessage
      [] OTHER -> <<>>

\* what the extraction call yields once it settles: a response whose text is a
\* JSON object (ok), a response that is not (null), or an exception
Ok(delta) == [kind |-> "ok", delta |-> delta, message |-> <<>>]
Failure(kind) == [kind |-> kind, delta |-> NoDelta, message |-> MessageOf(kind)]

LlmDiv(d) == [NoDelta EXCEPT !.divergence_delta = d]
LlmResetDiv == [NoDelta EXCEPT !.world_state = <<WsField("divergence", "", FreshDiv)>>]
LlmFaction == [NoDelta EXCEPT !.world_state = <<WsField("faction_status", "war", NoDiv)>>]

\* chats of at most MaxChat turns
ChatsOf(msgs) == UNION {[1..n -> msgs] : n \in 1..MaxChat}

(* Inputs of the main specification *)
Msgs == {UserMsg, PlainMsg, ForgeMsg(<<"f">>, ForgeDiv(1))}
Responses == {Ok(LlmDiv(1)), Failure("null"), Failure("rate"), Failure("other")}

----------------------------------------------------------------------------
(* Handler bookkeeping *)

Procs == 1..MaxProcs
\* an invocation: where it is suspended (pc), the extraction calls it has issued
\* (attempts), the backoff waits it has begun (waits) and the seconds of the
\* wait under way (waitSec); `switched` records that a chat_changed event
\* arrived while the invocation was suspended
IdleProc == [pc |-> "idle", attempts |-> 0, waits |-> 0, waitSec |-> 0,
             switched |-> FALSE]
FirstCall(pc) == [IdleProc EXCEPT !.pc = pc, !.attempts = 1]
Idle(p) == proc[p].pc = "idle" /\ \A q \in Procs : proc[q].pc = "idle" => p <= q

\* What a handler run did besides changing the variables above: the status line
\* it left ("" when it wrote none, "info" for a progress or result message),
\* whether it called persistLocal, the ids whose applyFn it ran (in order),
\* whether the last of them raised, for the run that ends an extraction or a
\* rescan the calls and backoff waits that operation made, and for the run that
\* issues the pass-2 call the number of orphan turns in its batch.
Quiet == [status |-> "", persist |-> FALSE, ran |-> <<>>, raised |-> FALSE,
          calls |-> 0, waits |-> 0, batch |-> 0]
Status(msg) == [Quiet EXCEPT !.status = msg]
Ended(msg, p) == [Status(msg) EXCEPT !.calls = p.attempts, !.waits = p.waits]

\* a proposal pass that commits what it proposes
proposeDeltaCommitting(q, delta) ==
    LET items == WithIds(NewItems(delta, q.store), q.uid)
    IN  [queue |-> q.queue \o items, uid |-> q.uid + Len(items),
         store |-> ApplyInOrder(items, q.store, <<>>).store, raised |-> FALSE]

\* proposeDelta(delta) on q = [queue, uid, store, raised]:
\* pendingQueue.push(...newItems); gistFiles is read, not written.  When it raises
\* nothing was pushed: newItems is local.
proposeDelta(q, delta) ==
    LET items == WithIds(NewItems(delta, q.store), q.uid)
    IN  IF ProposalRaises(delta) THEN [q EXCEPT !.raised = TRUE]
        ELSE [queue |-> q.queue \o items, uid |-> q.uid + Len(items),
              store |-> q.store, raised |-> FALSE]

\* if (!deltaIsEmpty(delta)) proposeDelta(delta)
proposeUnlessEmpty(q, delta) ==
    IF deltaIsEmpty(delta) THEN q ELSE proposeDelta(q, delta)

StartQ == [queue |-> pendingQueue, uid |-> nextUid, store |-> gistFiles, raised |-> FALSE]

Rating(store) == store.ws.divergence.rating

\* the store once the session's gist is loaded: world_state.json with the given
\* divergence threshold, one event of the current arc, one NPC document and one
\* file that is not JSON
LoadedStore(threshold) ==
    [ws |-> [present |-> TRUE,
             divergence |-> [FreshDiv EXCEPT !.threshold = threshold],
             in_world_date |-> "", faction_status |-> "peace"],
     arc_events |-> <<[id |-> eventKey(TheRaid), player_status |-> "pending"]>>,
     npcs |-> <<[key |-> npcFilename(TayHeb),
                 doc |-> [scaffoldNpcFile(TayHeb, Ski) EXCEPT !.relationship = "wary"]],
                [key |-> npcFilename(Bad), doc |-> RawNpc]>>]

Init ==
    /\ gistFiles = LoadedStore(InitThreshold)
    /\ pendingQueue = <<>>
    /\ lastMessageText = <<>>
    /\ isExtracting = FALSE
    /\ isRescanning = FALSE
    /\ rescanAbort = FALSE
    /\ syncTimer = FALSE
    /\ timerLeft = 0
    /\ remote = gistFiles
    /\ proc = [p \in Procs |-> IdleProc]
    /\ nextUid = 0
    /\ last = Quiet

----------------------------------------------------------------------------
(* Queue handlers *)

\* a timer that is re-armed without being cleared first keeps its deadline
scheduleKeepingDeadline ==
    /\ syncTimer' = TRUE
    /\ timerLeft' = IF syncTimer THEN timerLeft ELSE DelayTicks
    /\ UNCHANGED remote

\* if (syncTimer) clearTimeout(syncTimer); syncTimer = setTimeout(pushToGist, PUSH_DELAY_MS)
schedulePushToGist ==
    /\ syncTimer' = TRUE
    /\ timerLeft' = DelayTicks
    /\ UNCHANGED remote

\* an accept that drops the item whatever its commit did
acceptChangeDroppingFailed(id) ==
    LET idx == findIndex(pendingQueue, id)
        r == applyFn(gistFiles, pendingQueue[idx])
    IN  /\ idx # 0 => Rating(r.store) <= MaxRating
        /\ IF idx = 0
           THEN /\ last' = Quiet
                /\ UNCHANGED <<gistFiles, pendingQueue, syncTimer, timerLeft, remote>>
           ELSE /\ gistFiles' = r.store
                /\ pendingQueue' = splice(pendingQueue, idx)
                /\ schedulePushToGist
                /\ last' = [Quiet EXCEPT !.ran = <<id>>, !.persist = TRUE,
                                         !.raised = r.raised,
                                         !.status = IF r.raised THEN "apply error"
                                                    ELSE IF Len(pendingQueue) = 1
                                                    THEN "info" ELSE ""]
        /\ UNCHANGED <<lastMessageText, isExtracting, isRescanning, rescanAbort, proc,
                       nextUid>>

acceptChange(id) ==
    LET idx == findIndex(pendingQueue, id)
        r == applyFn(gistFiles, pendingQueue[idx])
    IN  /\ idx # 0 => Rating(r.store) <= MaxRating
        /\ IF idx = 0
           THEN /\ last' = Quiet
                /\ UNCHANGED <<gistFiles, pendingQueue, syncTimer, timerLeft, remote>>
           ELSE IF r.raised
           THEN /\ gistFiles' = r.store
                /\ last' = [Quiet EXCEPT !.ran = <<id>>, !.raised = TRUE,
                                         !.status = "apply error"]
                /\ UNCHANGED <<pendingQueue, syncTimer, timerLeft, remote>>
           ELSE /\ gistFiles' = r.store
                /\ pendingQueue' = splice(pendingQueue, idx)
                /\ schedulePushToGist
                /\ last' = [Quiet EXCEPT !.ran = <<id>>, !.persist = TRUE,
                                         !.status = IF Len(pendingQueue) = 1
                                                    THEN "info" ELSE ""]
        /\ UNCHANGED <<lastMessageText, isExtracting, isRescanning, rescanAbort, proc,
                       nextUid>>

\* a deny that also persists and schedules a push
denyChangePersisting(id) ==
    LET idx == findIndex(pendingQueue, id)
    IN  /\ IF idx = 0
           THEN /\ last' = Quiet
                /\ UNCHANGED <<pendingQueue, syncTimer, timerLeft, remote>>
           ELSE /\ pendingQueue' = splice(pendingQueue, idx)
                /\ schedulePushToGist
                /\ last' = [Status(IF Len(pendingQueue) = 1 THEN "info" ELSE "")
                              EXCEPT !.persist = TRUE]
        /\ UNCHANGED <<gistFiles, lastMessageText, isExtracting, isRescanning,
                       rescanAbort, proc, nextUid>>

denyChange(id) ==
    LET idx == findIndex(pendingQueue, id)
    IN  /\ IF idx = 0
           THEN /\ last' = Quiet
                /\ UNCHANGED pendingQueue
           ELSE /\ pendingQueue' = splice(pendingQueue, idx)
                /\ last' = Status(IF Len(pendingQueue) = 1 THEN "info" ELSE "")
        /\ UNCHANGED <<gistFiles, lastMessageText, isExtracting, isRescanning,
                       rescanAbort, syncTimer, timerLeft, remote, proc, nextUid>>

acceptAll ==
    LET r == ApplyInOrder(AcceptAllOrder(pendingQueue), gistFiles, <<>>)
    IN  /\ Rating(r.store) <= MaxRating
        /\ gistFiles' = r.store
        /\ IF r.raised
           THEN \* the exception leaves acceptAll: nothing after the loop runs
                /\ last' = [Quiet EXCEPT !.ran = r.ran, !.raised = TRUE]
                /\ UNCHANGED <<pendingQueue, syncTimer, timerLeft, remote>>
           ELSE /\ pendingQueue' = <<>>
                /\ schedulePushToGist
                /\ last' = [Quiet EXCEPT !.ran = r.ran, !.persist = TRUE,
                                         !.status = "info"]
        /\ UNCHANGED <<lastMessageText, isExtracting, isRescanning, rescanAbort, proc,
                       nextUid>>

denyAll ==
    /\ pendingQueue' = <<>>
    /\ last' = Status("info")
    /\ UNCHANGED <<gistFiles, lastMessageText, isExtracting, isRescanning, rescanAbort,
                   syncTimer, timerLeft, remote, proc, nextUid>>

\* time passes on the pending timer
tick ==
    /\ syncTimer /\ timerLeft > 0
    /\ timerLeft' = timerLeft - 1
    /\ UNCHANGED <<gistFiles, pendingQueue, lastMessageText, isExtracting, isRescanning,
                   rescanAbort, syncTimer, remote, proc, nextUid, last>>

\* gistFiles = {}
EmptyStore == [ws |-> NoWs, arc_events |-> <<>>, npcs |-> <<>>]

\* updateGistFiles(gistId, filesObj): the request writes the files it names and
\* leaves the others; a store of the model names every file of the gist or none
updateGistFiles(gist, files) == IF files = EmptyStore THEN gist ELSE files

\* the debounce timer fires: pushToGist writes every file of gistFiles
pushToGist ==
    /\ syncTimer /\ timerLeft = 0
    /\ syncTimer' = FALSE
    /\ remote' = updateGistFiles(remote, gistFiles)
    /\ last' = Status("saved")
    /\ UNCHANGED <<gistFiles, pendingQueue, lastMessageText, isExtracting, isRescanning,
                   rescanAbort, timerLeft, proc, nextUid>>

\* a failed write that puts the store back to what the gist holds
pushFailsRollingBack ==
    /\ syncTimer /\ timerLeft = 0
    /\ syncTimer' = FALSE
    /\ gistFiles' = remote
    /\ last' = Status("save failed")
    /\ UNCHANGED <<pendingQueue, lastMessageText, isExtracting, isRescanning,
                   rescanAbort, timerLeft, remote, proc, nextUid>>

\* the debounce timer fires and updateGistFiles throws: the catch of pushToGist
\* (line 261) writes the status
pushFails ==
    /\ syncTimer /\ timerLeft = 0
    /\ syncTimer' = FALSE
    /\ last' = Status("save failed")
    /\ UNCHANGED <<gistFiles, pendingQueue, lastMessageText, isExtracting, isRescanning,
                   rescanAbort, timerLeft, remote, proc, nextUid>>

\* syncFromGist with a gist configured, at the moment fetchGistFiles settles:
\* the fetched files replace the store, or the catch of line 241 writes the status
syncFromGist(fetched) ==
    /\ IF fetched
       THEN /\ gistFiles' = remote
            /\ last' = [Status("synced") EXCEPT !.persist = TRUE]
       ELSE /\ last' = Status("sync failed")
            /\ UNCHANGED gistFiles
    /\ UNCHANGED <<pendingQueue, lastMessageText, isExtracting, isRescanning,
                   rescanAbort, syncTimer, timerLeft, remote, proc, nextUid>>

\* the chat_changed handler up to its end or to the await of syncFromGist: the
\* queue, the store and the last-message marker are reset, and the store is
\* the cached state of the new chat when loadLocal finds one (`cache`, the
\* empty store when it finds none, and then syncFromGist above settles
\* later). The gist id in force stays the same (the global fallback, or a
\* cache saved under it). Busy flags, the debounce timer and suspended
\* invocations are not touched.
chatChanged(cache) ==
    /\ gistFiles' = cache
    /\ pendingQueue' = <<>>
    /\ lastMessageText' = <<>>
    /\ proc' = [p \in Procs |-> IF proc[p].pc = "idle" THEN proc[p]
                                 ELSE [proc[p] EXCEPT !.switched = TRUE]]
    /\ last' = Status(IF cache = EmptyStore THEN "fetching" ELSE "loaded (cached)")
    /\ UNCHANGED <<isExtracting, isRescanning, rescanAbort, syncTimer, timerLeft,
                   remote, nextUid>>

----------------------------------------------------------------------------
(* Single-message extraction *)

\* stripThinkingBlocks(rawText): the raw text is the body followed by the wst
\* block, which the last replacement removes
cleanTextOf(msg) == stripThinkingBlocks(msg.body)

\* parseDelta(raw): null for a response that is not a JSON object
parseDelta(resp) == IF resp.kind = "ok" THEN resp.delta ELSE NoDelta

\* the entry guard of onMessageReceived, line 283
ExtractionBlocked == ~gistFiles.ws.present \/ isExtracting \/ isRescanning

onMessageReceived(chat) ==
    LET lastMsg == chat[Len(chat)]
        cleanText == cleanTextOf(lastMsg)
    IN  IF lastMsg.is_user \/ cleanText = lastMessageText \/ cleanText = <<>>
        THEN /\ last' = Quiet
             /\ UNCHANGED <<gistFiles, pendingQueue, lastMessageText, isExtracting,
                            isRescanning, rescanAbort, syncTimer, timerLeft, remote, proc, nextUid>>
        ELSE /\ lastMessageText' = cleanText
             /\ IF ExtractionBlocked
                THEN /\ last' = Quiet
                     /\ UNCHANGED <<gistFiles, pendingQueue, isExtracting, proc,
                                    nextUid>>
                ELSE IF lastMsg.forge.present
                THEN LET delta == normalizeForgeBlock(lastMsg.forge, gistFiles)
                         q == proposeUnlessEmpty(StartQ, delta)
                     IN  /\ q.uid <= MaxUid
                         /\ pendingQueue' = q.queue
                         /\ nextUid' = q.uid
                         /\ gistFiles' = q.store
                         \* an exception of proposeDelta leaves the handler
                         \* before any status is written
                         /\ last' = IF q.raised THEN Quiet ELSE Status("info")
                         /\ UNCHANGED <<isExtracting, proc>>
                ELSE \E p \in Procs :
                         /\ Idle(p)
                         /\ isExtracting' = TRUE
                         /\ proc' = [proc EXCEPT ![p] = FirstCall("extCall")]
                         /\ last' = Status("info")
                         /\ UNCHANGED <<gistFiles, pendingQueue, nextUid>>
             /\ UNCHANGED <<isRescanning, rescanAbort, syncTimer, timerLeft, remote>>

\* a response that is not a JSON object handled as a failed call
OutcomeRejectingNull(resp, q) ==
    IF resp.kind = "null" \/ q.raised THEN Failure("type") ELSE resp

\* what the try block around the call ends with: the response, or the exception
\* that its processing (proposeDelta) raised
Outcome(resp, q) ==
    IF resp.kind \in {"ok", "null"} /\ q.raised THEN Failure("type") ELSE resp

\* the awaited runExtractionCall of onMessageReceived settles
extractionSettles(p, resp) ==
    LET delta == parseDelta(resp)
        q == proposeUnlessEmpty(StartQ, delta)
    IN  /\ proc[p].pc = "extCall"
        /\ proc' = [proc EXCEPT ![p] = IdleProc]
        /\ isExtracting' = FALSE
        /\ IF Outcome(resp, q).kind \in {"ok", "null"}
           THEN /\ q.uid <= MaxUid
                /\ pendingQueue' = q.queue
                /\ nextUid' = q.uid
                /\ gistFiles' = q.store
                /\ last' = Ended("info", proc[p])
           ELSE /\ last' = Ended("extraction error", proc[p])
                /\ UNCHANGED <<gistFiles, pendingQueue, nextUid>>
        /\ UNCHANGED <<lastMessageText, isRescanning, rescanAbort, syncTimer,
                       timerLeft, remote>>

----------------------------------------------------------------------------
(* Batch rescan *)

rawIsEmpty(msg) == msg.body = <<>> /\ msg.forge.block = "none"

\* the collected turns left in the order of collection, newest first
RECURSIVE WindowNewestFirst(_, _, _)
WindowNewestFirst(messages, i, count) ==
    IF i = 0 \/ count = 0 THEN <<>>
    ELSE IF messages[i].is_user \/ rawIsEmpty(messages[i])
         THEN WindowNewestFirst(messages, i - 1, count)
         ELSE <<messages[i]>> \o WindowNewestFirst(messages, i - 1, count - 1)

\* the newest `count` non-user, non-empty turns, oldest first (lines 347-355)
RECURSIVE Window(_, _, _)
Window(messages, i, count) ==
    IF i = 0 \/ count = 0 THEN <<>>
    ELSE IF messages[i].is_user \/ rawIsEmpty(messages[i])
         THEN Window(messages, i - 1, count)
         ELSE Append(Window(messages, i - 1, count - 1), messages[i])

\* a filter that lets every turn through
hasNpcAlways(msg, store) == TRUE

\* the orphan filter: the raw text mentions a known NPC
hasNpc(msg, store) ==
    \E i \in 1..Len(store.npcs) :
        \E j \in 1..Len(Candidates(store.npcs[i].doc)) :
            includes(toLowerCase(msg.body), Candidates(store.npcs[i].doc)[j])

\* pass 1 over the window: [q, forgeFound, orphans]; an exception of
\* proposeDelta ends the loop (and the function: there is no try/catch)
RECURSIVE Pass1(_, _, _, _)
Pass1(aiMessages, forgeOnly, abort, acc) ==
    IF aiMessages = <<>> \/ abort \/ acc.q.raised THEN acc
    ELSE LET msg == Head(aiMessages)
             delta == normalizeForgeBlock(msg.forge, acc.q.store)
             next ==
                 IF msg.forge.present
                 THEN IF deltaIsEmpty(delta) THEN acc
                      ELSE [acc EXCEPT !.q = proposeDelta(acc.q, delta),
                                       !.forgeFound = @ + 1]
                 ELSE IF ~forgeOnly /\ hasNpc(msg, acc.q.store)
                      THEN [acc EXCEPT !.orphans = @ + 1]
                      ELSE acc
         IN  Pass1(Tail(aiMessages), forgeOnly, abort, next)

\* an entry guard that looks at the rescan flag only
RescanBlockedByRescanOnly == isRescanning

\* the entry guard of rescanHistory, line 334
RescanBlocked == isRescanning \/ isExtracting

rescanHistory(chat, count, forgeOnly) ==
    LET aiMessages == Window(chat, Len(chat), count)
        \* rescanAbort was set to false on line 360, before the loop
        r == Pass1(aiMessages, forgeOnly, FALSE,
                   [q |-> StartQ, forgeFound |-> 0, orphans |-> 0])
    IN  IF RescanBlocked
        THEN /\ last' = Status("already scanning")
             /\ UNCHANGED <<gistFiles, pendingQueue, lastMessageText, isExtracting,
                            isRescanning, rescanAbort, syncTimer, timerLeft, remote, proc, nextUid>>
        ELSE IF ~gistFiles.ws.present \/ aiMessages = <<>>
        THEN /\ last' = Status("info")
             /\ UNCHANGED <<gistFiles, pendingQueue, lastMessageText, isExtracting,
                            isRescanning, rescanAbort, syncTimer, timerLeft, remote, proc, nextUid>>
        ELSE /\ r.q.uid <= MaxUid
             /\ rescanAbort' = FALSE
             /\ pendingQueue' = r.q.queue
             /\ nextUid' = r.q.uid
             /\ gistFiles' = r.q.store
             /\ IF r.q.raised
                THEN \* the exception leaves rescanHistory after line 359
                     /\ isRescanning' = TRUE
                     /\ last' = Status("info")
                     /\ UNCHANGED proc
                ELSE IF forgeOnly \/ r.orphans = 0
                THEN /\ last' = Status("rescan complete")
                     /\ UNCHANGED <<isRescanning, proc>>
                ELSE \E p \in Procs :
                         /\ Idle(p)
                         /\ isRescanning' = TRUE
                         /\ proc' = [proc EXCEPT ![p] = FirstCall("rsCall")]
                         /\ last' = [Status("info") EXCEPT !.batch = r.orphans]
             /\ UNCHANGED <<lastMessageText, isExtracting, syncTimer, timerLeft,
                            remote>>

\* the summary that ends a rescan (lines 447-457): it replaces whatever status
\* the run wrote before it
Summary == IF rescanAbort THEN "scan stopped" ELSE "rescan complete"

\* attempts * 8
waitSec(attempts) == attempts * 8

\* a loop that allows one attempt more
LoopOrFinishOneMore(p, n, status) ==
    IF n < MAX_ATTEMPTS + 1 /\ ~rescanAbort
    THEN /\ proc' = [proc EXCEPT ![p].pc = "rsCall", ![p].attempts = n + 1,
                                  ![p].waitSec = 0]
         /\ last' = Status(status)
         /\ UNCHANGED isRescanning
    ELSE /\ proc' = [proc EXCEPT ![p] = IdleProc]
         /\ isRescanning' = FALSE
         /\ last' = Ended(Summary, proc[p])

\* the while condition of pass 2 (line 418), evaluated after attempt number n:
\* either the next attempt is issued or the rescan ends with its summary
LoopOrFinish(p, n, status) ==
    IF n < MAX_ATTEMPTS /\ ~rescanAbort
    THEN /\ proc' = [proc EXCEPT ![p].pc = "rsCall", ![p].attempts = n + 1,
                                  ![p].waitSec = 0]
         /\ last' = Status(status)
         /\ UNCHANGED isRescanning
    ELSE /\ proc' = [proc EXCEPT ![p] = IdleProc]
         /\ isRescanning' = FALSE
         /\ last' = Ended(Summary, proc[p])

\* err.message?.includes('429') || ...toLowerCase().includes('too many')
\*   || ...toLowerCase().includes('rate')
isRateLimit(resp) ==
    \/ includes(resp.message, <<"4", "2", "9">>)
    \/ includes(toLowerCase(resp.message), <<"t", "o", "o", " ", "m", "a", "n", "y">>)
    \/ includes(toLowerCase(resp.message), <<"r", "a", "t", "e">>)

\* the awaited runExtractionCall of pass 2 settles
rescanCallSettles(p, resp) ==
    LET n == proc[p].attempts
        q == proposeUnlessEmpty(StartQ, parseDelta(resp))
        out == Outcome(resp, q)
    IN  /\ proc[p].pc = "rsCall"
        /\ IF out.kind \in {"ok", "null"}
           THEN \* success: break
                /\ q.uid <= MaxUid
                /\ pendingQueue' = q.queue
                /\ nextUid' = q.uid
                /\ gistFiles' = q.store
                /\ proc' = [proc EXCEPT ![p] = IdleProc]
                /\ isRescanning' = FALSE
                /\ last' = Ended(Summary, proc[p])
           ELSE IF isRateLimit(out) /\ n < MAX_ATTEMPTS
           THEN /\ proc' = [proc EXCEPT ![p].pc = "rsWait", ![p].waits = @ + 1,
                                         ![p].waitSec = waitSec(n)]
                /\ last' = Status("rate limited")
                /\ UNCHANGED <<gistFiles, pendingQueue, nextUid, isRescanning>>
           ELSE /\ LoopOrFinish(p, n, "LLM batch error")
                /\ UNCHANGED <<gistFiles, pendingQueue, nextUid>>
        /\ UNCHANGED <<lastMessageText, isExtracting, rescanAbort, syncTimer,
                       timerLeft, remote>>

\* the backoff wait of pass 2 is over
rescanWaitEnds(p) ==
    /\ proc[p].pc = "rsWait"
    /\ LoopOrFinish(p, proc[p].attempts, "")
    /\ UNCHANGED <<gistFiles, pendingQueue, lastMessageText, isExtracting, rescanAbort,
                   syncTimer, timerLeft, remote, nextUid>>

\* the Stop button while a scan is running (line 1122)
abortClick ==
    /\ isRescanning
    /\ rescanAbort' = TRUE
    /\ last' = Quiet
    /\ UNCHANGED <<gistFiles, pendingQueue, lastMessageText, isExtracting, isRescanning,
                   syncTimer, timerLeft, remote, proc, nextUid>>

----------------------------------------------------------------------------
Counts == {1, 2}

Next ==
    \/ \E m \in Msgs : onMessageReceived(<<m>>)
    \/ \E p \in Procs, resp \in Responses : extractionSettles(p, resp)
    \/ \E chat \in ChatsOf(Msgs), count \in Counts, forgeOnly \in BOOLEAN :
           rescanHistory(chat, count, forgeOnly)
    \/ \E p \in Procs, resp \in Responses : rescanCallSettles(p, resp)
    \/ \E p \in Procs : rescanWaitEnds(p)
    \/ abortClick
    \/ \E id \in 1..MaxUid : acceptChange(id)
    \/ \E id \in 1..MaxUid : denyChange(id)
    \/ acceptAll
    \/ denyAll

Spec == Init /\ [][Next]_vars

----------------------------------------------------------------------------
(* The review queue on its own: structured blocks whose changes include    *)
(* one that targets the raw document npc_bad.json, whose commit raises.    *)

QueueMsgs == {ForgeMsg(<<"f">>, ForgeRel), ForgeMsg(<<"g">>, ForgeDate)}
QueueChats == {<<m>> : m \in QueueMsgs}

NextQueue ==
    \/ \E m \in QueueMsgs : onMessageReceived(<<m>>)
    \/ \E chat \in QueueChats, forgeOnly \in BOOLEAN : rescanHistory(chat, 1, forgeOnly)
    \/ \E id \in 1..MaxUid : acceptChange(id)
    \/ \E id \in 1..MaxUid : denyChange(id)
    \/ acceptAll
    \/ denyAll
    \/ tick
    \/ pushToGist

SpecQueue == Init /\ [][NextQueue]_vars

\* the same, with time passing and the timer callback running once it is due
\* (the host's event loop runs a timer that has expired)
SpecPush == SpecQueue /\ WF_vars(tick) /\ WF_vars(pushToGist)

----------------------------------------------------------------------------
(* Divergence: rating deltas from both passes, and a world_state delta     *)
(* whose field is "divergence".                                            *)

DivMsgs == {ForgeMsg(<<"f">>, ForgeDiv(2)), ForgeMsg(<<"g">>, ForgeResetDiv), PlainMsg}
DivResponses == {Ok(LlmDiv(1)), Ok(LlmResetDiv)}

NextDiv ==
    \/ \E m \in DivMsgs : onMessageReceived(<<m>>)
    \/ \E p \in Procs, resp \in DivResponses : extractionSettles(p, resp)
    \/ \E id \in 1..MaxUid : acceptChange(id)
    \/ \E id \in 1..MaxUid : denyChange(id)
    \/ acceptAll
    \/ denyAll

SpecDiv == Init /\ [][NextDiv]_vars

----------------------------------------------------------------------------
(* Divergence sums: positive rating deltas only, from rating 0, under      *)
(* several thresholds.                                                     *)

SumThresholds == {InitThreshold + 5, DefaultThreshold}
SumMsgs == {ForgeMsg(<<"a">>, ForgeDiv(5)), ForgeMsg(<<"b">>, ForgeDiv(7)),
            ForgeMsg(<<"c">>, ForgeDiv(4)), ForgeMsg(<<"d">>, ForgeDiv(3))}

InitSum ==
    /\ \E t \in SumThresholds : gistFiles = LoadedStore(t)
    /\ pendingQueue = <<>>
    /\ lastMessageText = <<>>
    /\ isExtracting = FALSE
    /\ isRescanning = FALSE
    /\ rescanAbort = FALSE
    /\ syncTimer = FALSE
    /\ timerLeft = 0
    /\ remote = gistFiles
    /\ proc = [p \in Procs |-> IdleProc]
    /\ nextUid = 0
    /\ last = Quiet

NextSum ==
    \/ \E m \in SumMsgs : onMessageReceived(<<m>>)
    \/ \E id \in 1..MaxUid : acceptChange(id)
    \/ \E id \in 1..MaxUid : denyChange(id)
    \/ acceptAll
    \/ denyAll

SpecSum == InitSum /\ [][NextSum]_vars

----------------------------------------------------------------------------
(* New NPCs: entries whose key is in the store, an entry that names an     *)
(* alias of a stored NPC, and an entry for an unknown name.                *)

ForgeNewArm == [Forge(0, <<>>, <<>>, <<NpcSpec(Arm), NpcSpec(TayHeb)>>)
                  EXCEPT !.in_world_date = "day 2"]
NpcMsgs == {ForgeMsg(<<"f">>, ForgeNew), ForgeMsg(<<"g">>, ForgeNewArm)}
NpcChats == {<<m>> : m \in NpcMsgs}

NextNpc ==
    \/ \E m \in NpcMsgs : onMessageReceived(<<m>>)
    \/ \E chat \in NpcChats, forgeOnly \in BOOLEAN : rescanHistory(chat, 1, forgeOnly)
    \/ \E id \in 1..MaxUid : acceptChange(id)
    \/ \E id \in 1..MaxUid : denyChange(id)
    \/ acceptAll
    \/ denyAll

SpecNpc == Init /\ [][NextNpc]_vars

----------------------------------------------------------------------------
(* Rescans whose turns are orphans (plain text naming a stored NPC), with   *)
(* every outcome of the extraction call, cancellation and the callers that  *)
(* the busy flags turn away.                                                *)

RescanMsgs == {PlainMsg, ForgeMsg(<<"f">>, ForgeDiv(1))}
RescanChats == ChatsOf({PlainMsg})
RescanResponses == {Ok(LlmDiv(1)), Failure("rate"), Failure("other"),
                    Failure("unavailable")}

NextRescan ==
    \/ \E m \in RescanMsgs : onMessageReceived(<<m>>)
    \/ \E p \in Procs, resp \in RescanResponses : extractionSettles(p, resp)
    \/ \E chat \in RescanChats, count \in Counts : rescanHistory(chat, count, FALSE)
    \/ \E p \in Procs, resp \in RescanResponses : rescanCallSettles(p, resp)
    \/ \E p \in Procs : rescanWaitEnds(p)
    \/ abortClick
    \/ denyAll

SpecRescan == Init /\ [][NextRescan]_vars

----------------------------------------------------------------------------
(* The scan window: chats that mix user turns, empty turns, turns with a    *)
(* structured block, prose that names a stored NPC and prose that names     *)
(* none.                                                                    *)

EmptyMsg == Msg(FALSE, <<>>, NoForge)
AtmoMsg == Msg(FALSE, <<"F", "o", "g">>, NoForge)
WindowMsgs == {UserMsg, EmptyMsg, AtmoMsg, PlainMsg, ForgeMsg(<<"f">>, ForgeDiv(1)),
               ForgeMsg(<<"g">>, ForgeDate)}
WindowChats == ChatsOf(WindowMsgs)
WindowResponses == {Ok(LlmFaction)}

NextWindow ==
    \/ \E chat \in WindowChats, count \in Counts, forgeOnly \in BOOLEAN :
           rescanHistory(chat, count, forgeOnly)
    \/ \E p \in Procs, resp \in WindowResponses : rescanCallSettles(p, resp)
    \/ denyAll

SpecWindow == Init /\ [][NextWindow]_vars

----------------------------------------------------------------------------
(* Rescans that run to their end: every call settles and every wait ends.  *)
(* One structured block lists a new NPC without a display_name.             *)

ForgeNameless == Forge(0, <<>>, <<>>, <<[display_name |-> Undefined, alias |-> Ski]>>)
BusyMsgs == {PlainMsg, ForgeMsg(<<"f">>, ForgeDiv(1)), ForgeMsg(<<"n">>, ForgeNameless)}
BusyChats == ChatsOf(BusyMsgs)
BusyResponses == {Ok(LlmDiv(1)), Failure("rate"), Failure("other")}

CallSettles == \E p \in Procs, resp \in BusyResponses : rescanCallSettles(p, resp)
WaitEnds == \E p \in Procs : rescanWaitEnds(p)

NextBusy ==
    \/ \E chat \in BusyChats, count \in Counts, forgeOnly \in BOOLEAN :
           rescanHistory(chat, count, forgeOnly)
    \/ CallSettles
    \/ WaitEnds
    \/ abortClick
    \/ denyAll

SpecBusy == Init /\ [][NextBusy]_vars /\ WF_vars(CallSettles) /\ WF_vars(WaitEnds)

----------------------------------------------------------------------------
(* Properties of the approval queue and of the busy flags *)

Ids == 1..MaxUid
RelationshipOf(store, i) == store.npcs[i].doc.relationship
IdsOf(queue) == [i \in 1..Len(queue) |-> queue[i].id]
Without(queue, id) == LET Keep(item) == item.id # id IN SelectSeq(queue, Keep)
InFlight == {p \in Procs : proc[p].pc # "idle"}

AcceptStep == acceptAll \/ \E id \in Ids : acceptChange(id)
PipelineStep ==
    \/ \E m \in Msgs : onMessageReceived(<<m>>)
    \/ \E p \in Procs, resp \in Responses : extractionSettles(p, resp)
    \/ \E chat \in ChatsOf(Msgs), count \in Counts, forgeOnly \in BOOLEAN :
           rescanHistory(chat, count, forgeOnly)
    \/ \E p \in Procs, resp \in Responses : rescanCallSettles(p, resp)
    \/ \E p \in Procs : rescanWaitEnds(p)
DenyStep == denyAll \/ \E id \in Ids : denyChange(id)

\* C1: a step of the extraction pipeline (structured-block pass, extraction-call
\* pass, proposeDelta) or a deny leaves every store document as it was; the store
\* changes only in a step of acceptChange or acceptAll that ran a commit.
StoreChangesOnlyOnAccept ==
    [][gistFiles' # gistFiles =>
         /\ AcceptStep /\ last'.ran # <<>>
         /\ ~PipelineStep /\ ~DenyStep]_vars

\* two changes were proposed, one was accepted, and the step that led here ran no
\* commit: the store is still as the accept left it
ProposedWithoutCommit ==
    /\ nextUid = 2 /\ Len(pendingQueue) = 1
    /\ Rating(gistFiles) = 1
    /\ last.ran = <<>> /\ last.status = "info"

\* C2: isExtracting and isRescanning are never both true, at most one extraction
\* call or rescan is in progress, and rescanHistory invoked while either flag is
\* set makes no call, enqueues nothing and leaves both flags as they were.
OneScanAtATime ==
    /\ [](~(isExtracting /\ isRescanning) /\ Cardinality(InFlight) <= 1)
    /\ [][((isRescanning \/ isExtracting)
            /\ <<proc, pendingQueue, nextUid, isExtracting, isRescanning>>'
                 # <<proc, pendingQueue, nextUid, isExtracting, isRescanning>>)
           => \A chat \in ChatsOf(Msgs), count \in Counts, forgeOnly \in BOOLEAN :
                 ~rescanHistory(chat, count, forgeOnly)]_vars

\* rescanHistory was invoked during an extraction call and refused
RescanRefusedWhileExtracting ==
    /\ isExtracting /\ last.status = "already scanning"
    /\ Cardinality(InFlight) = 1

\* C3: when the commit of acceptChange(id) raises, the queue is as it was (the
\* item at the same position, no other item removed), an error status is
\* surfaced, and neither the local persist nor the remote push is scheduled.
FailedAcceptKeepsItem ==
    [][\A id \in Ids :
         LET idx == findIndex(pendingQueue, id)
         IN  (idx # 0 /\ applyFn(gistFiles, pendingQueue[idx]).raised /\ acceptChange(id))
             => /\ pendingQueue' = pendingQueue
                /\ last'.status = "apply error"
                /\ ~last'.persist
                /\ syncTimer' = syncTimer
                /\ last'.ran = <<id>>]_vars

\* an accept has just raised with a second item behind the failing one
AcceptRaised ==
    /\ last.raised /\ last.status = "apply error"
    /\ Len(pendingQueue) >= 2
    /\ ~syncTimer

\* C4: denyChange(id) removes exactly the item with that id and denyAll removes
\* every item; neither changes a store document, runs a commit, persists locally
\* or schedules a push.
DenyTouchesOnlyQueue ==
    [][DenyStep =>
         /\ \A id \in Ids : denyChange(id) => pendingQueue' = Without(pendingQueue, id)
         /\ denyAll => pendingQueue' = <<>>
         /\ gistFiles' = gistFiles
         /\ last'.ran = <<>>
         /\ ~last'.persist
         /\ syncTimer' = syncTimer]_vars

\* one of several proposed changes has left the queue while the store is as
\* loaded and no push was scheduled: it was denied
DeniedOne ==
    /\ nextUid >= 2 /\ Len(pendingQueue) = nextUid - 1
    /\ RelationshipOf(gistFiles, 1) = "wary" /\ gistFiles.ws.in_world_date = ""
    /\ ~syncTimer /\ last = Quiet

\* C5: acceptAll runs the commits in enqueue order: the ids it ran are a prefix
\* of the queue, with ascending ids; when the k-th raises, the store is the
\* result of commits 1..k-1 and no later item was run ahead of it.
AcceptAllInEnqueueOrder ==
    [][acceptAll =>
         LET n == Len(last'.ran)
         IN  /\ n <= Len(pendingQueue)
             /\ last'.ran = SubSeq(IdsOf(pendingQueue), 1, n)
             /\ \A i, j \in 1..n : i < j => last'.ran[i] < last'.ran[j]
             /\ ~last'.raised => n = Len(pendingQueue)
             /\ last'.raised =>
                  LET before == ApplyInOrder(SubSeq(pendingQueue, 1, n - 1), gistFiles, <<>>)
                  IN  ~before.raised /\ gistFiles' = before.store]_vars

\* acceptAll raised at its second commit: the first commit's effect is in the
\* store and the third item was not run
AcceptAllRaisedAtSecond ==
    /\ last.raised /\ last.ran = <<1, 2>>
    /\ Len(pendingQueue) = 3
    /\ RelationshipOf(gistFiles, 1) = "ally"
    /\ gistFiles.ws.in_world_date = ""

----------------------------------------------------------------------------
(* Properties of the divergence rating *)

Divergence(store) == store.ws.divergence
Reliable(store) == store.ws.divergence.timeline_reliable

RECURSIVE SumSeq(_)
SumSeq(seq) == IF seq = <<>> THEN 0 ELSE Head(seq) + SumSeq(Tail(seq))

\* C6: no step of proposing, accepting, denying, accepting all or denying all
\* extracted deltas, world_state field changes included, lowers
\* world_state.divergence.rating.
RatingNeverDecreases ==
    [][Rating(gistFiles)' >= Rating(gistFiles)]_vars

\* C7: a divergence commit that brings the rating to the threshold or above
\* leaves timeline_reliable false, and once false it stays false.
TimelineStaysUnreliable ==
    [][/\ (Rating(gistFiles)' > Rating(gistFiles) /\ MeetsThreshold(Divergence(gistFiles)'))
           => ~Reliable(gistFiles)'
       /\ ~Reliable(gistFiles) => ~Reliable(gistFiles)']_vars

\* C8: from rating 0 and timeline_reliable true, the rating is the sum of the
\* accepted positive deltas (each added to the rating found at commit time), and
\* timeline_reliable is false exactly when that sum has reached the threshold;
\* with threshold 15, deltas 5, 7, 4 give 16 and false, deltas 5, 3 give 8 and true.
AcceptedDeltasAddUp ==
    LET div == Divergence(gistFiles)
        accepted == div.logged_divergences
    IN  /\ div.rating = SumSeq(accepted)
        /\ div.timeline_reliable <=> (SumSeq(accepted) < div.threshold)
        /\ (div.threshold = DefaultThreshold /\ accepted = <<5, 7, 4>>)
              => (div.rating = 16 /\ ~div.timeline_reliable)
        /\ (div.threshold = DefaultThreshold /\ accepted = <<5, 3>>)
              => (div.rating = 8 /\ div.timeline_reliable)

\* deltas 5, 7, 4 were accepted under threshold 15
FiveSevenFourAccepted ==
    /\ Divergence(gistFiles).threshold = DefaultThreshold
    /\ Divergence(gistFiles).logged_divergences = <<5, 7, 4>>
    /\ Rating(gistFiles) = 16
    /\ ~Reliable(gistFiles)

----------------------------------------------------------------------------
(* Properties of new NPC proposals *)

AddedItems == SubSeq(pendingQueue', Len(pendingQueue) + 1, Len(pendingQueue'))
ProposalsFor(items, spec) ==
    {i \in 1..Len(items) : items[i].type = "new_npc" /\ items[i].spec = spec}

\* C9: a document added to the store never carries a display_name that the
\* Entity Resolver maps to an NPC already in the store.
ResolvedNameAddsNoDocument ==
    [][\A i \in (Len(gistFiles.npcs) + 1)..Len(gistFiles'.npcs) :
         ~resolveNpcFilename(gistFiles'.npcs[i].doc.display_name, gistFiles).ok]_vars

\* C10: when a structured block is proposed, each new_npcs entry whose slugified
\* key is a store key at that time yields no change, each other entry yields
\* one, and the block's other categories yield theirs.
StoredKeyNotProposed ==
    [][\A m \in NpcMsgs :
         (onMessageReceived(<<m>>) /\ pendingQueue' # pendingQueue) =>
             LET delta == normalizeForgeBlock(m.forge, gistFiles)
             IN  /\ \A i \in 1..Len(delta.new_npcs) :
                        Cardinality(ProposalsFor(AddedItems, delta.new_npcs[i])) =
                            IF npcFilename(delta.new_npcs[i].display_name) \in NpcKeys(gistFiles)
                            THEN 0 ELSE 1
                 /\ delta.in_world_date # "" =>
                        \E j \in 1..Len(AddedItems) : AddedItems[j].type = "date_advance"]_vars

\* a block naming a stored NPC, an unknown NPC and a date was proposed: the
\* queue holds the date change and the unknown NPC, nothing for the stored one
StoredNpcSkipped ==
    /\ lastMessageText = <<"g">>
    /\ \E i \in 1..Len(pendingQueue) : pendingQueue[i].type = "date_advance"
    /\ \E i \in 1..Len(pendingQueue) : pendingQueue[i].npcFile = npcFilename(Arm)
    /\ \A i \in 1..Len(pendingQueue) : pendingQueue[i].npcFile # npcFilename(TayHeb)
    /\ npcFilename(TayHeb) \in NpcKeys(gistFiles)

----------------------------------------------------------------------------
(* Properties of rescan pass 2 *)

Succeeds == {resp \in RescanResponses : resp.kind = "ok"}
Fails == RescanResponses \ Succeeds
Scanning(p) == proc[p].pc \in {"rsCall", "rsWait"}

\* C11: a rescan with orphans issues one extraction call for the whole batch,
\* whatever the number of orphans; a call that succeeds ends the rescan, a
\* further call is issued only after a failure, and one rescan never issues
\* more than 3 calls.
OneBatchedCall ==
    /\ [](\A p \in Procs : proc[p].attempts <= 3)
    /\ [](Cardinality(InFlight) <= 1)
    /\ [][\A p \in Procs :
            /\ (proc[p].pc = "idle" /\ proc'[p].pc = "rsCall")
                 => (proc'[p].attempts = 1 /\ last'.batch >= 1)
            /\ (proc[p].pc = "rsCall" /\ \E resp \in Succeeds : rescanCallSettles(p, resp))
                 => (proc'[p].pc = "idle" /\ last'.calls = proc[p].attempts)
            /\ (Scanning(p) /\ proc'[p].attempts > proc[p].attempts)
                 => \/ proc[p].pc = "rsWait"
                    \/ \E resp \in Fails : rescanCallSettles(p, resp)]_vars

\* a batch of two orphan turns went out as one call
TwoOrphansOneCall ==
    /\ last.batch = 2
    /\ \E p \in Procs : proc[p].pc = "rsCall" /\ proc[p].attempts = 1
    /\ Cardinality(InFlight) = 1

RateLimited(p) == proc[p].pc = "rsCall" /\ rescanCallSettles(p, Failure("rate"))

\* the retry schedule of rate-limit failures: failure number i below the cap
\* starts wait number i, of 8 * i seconds, and the next attempt follows the
\* wait; a success after k rate-limit failures ends with k + 1 calls, k waits
RetrySchedule ==
    \A p \in Procs :
        /\ (RateLimited(p) /\ proc[p].attempts < 3)
             => /\ proc'[p].pc = "rsWait"
                /\ proc'[p].attempts = proc[p].attempts
                /\ proc'[p].waits = proc[p].waits + 1
                /\ proc'[p].waitSec = 8 * proc[p].attempts
        /\ (proc[p].pc = "rsWait" /\ ~rescanAbort /\ proc'[p] # proc[p])
             => /\ proc'[p].pc = "rsCall"
                /\ proc'[p].attempts = proc[p].attempts + 1
                /\ proc'[p].waits = proc[p].waits
        /\ (proc[p].pc = "rsCall" /\ proc[p].waits = proc[p].attempts - 1
                /\ \E resp \in Succeeds : rescanCallSettles(p, resp))
             => /\ last'.calls = proc[p].waits + 1
                /\ last'.waits = proc[p].waits

\* C12: k rate-limit failures followed by a success make k + 1 attempts and
\* k waits, the i-th of 8 * i seconds, each before the next attempt; the third
\* rate-limit failure starts no attempt and no wait and leaves the failure as
\* the reported status.
ThirdRateLimitSurfaced ==
    [][/\ RetrySchedule
       /\ \A p \in Procs :
            (RateLimited(p) /\ proc[p].attempts = 3)
              => /\ proc'[p].pc = "idle"
                 /\ ~isRescanning'
                 /\ last'.calls = 3
                 /\ last'.waits = proc[p].waits
                 /\ last'.status = "LLM batch error"]_vars

\* a third rate-limit failure ended a rescan after two waits
GaveUpAfterThree ==
    /\ last.calls = 3
    /\ last.waits = 2
    /\ ~isRescanning

\* C13: a failure of the call that is not a rate-limit failure is followed by
\* no further attempt: the rescan reports it and stops.
OtherFailureStops ==
    [][\A p \in Procs :
        (proc[p].pc = "rsCall" /\ rescanCallSettles(p, Failure("other")))
          => /\ proc'[p].pc = "idle"
             /\ ~isRescanning'
             /\ last'.calls = proc[p].attempts]_vars

\* a rescan made a second attempt without any wait before it
RetriedWithoutWait ==
    \E p \in Procs : proc[p].pc = "rsCall" /\ proc[p].attempts = 2 /\ proc[p].waits = 0

\* C14: the capability-unavailable error is never retried: the single-message
\* extraction and pass 2 of a rescan each make one attempt, start no wait,
\* report a status and release their busy flag.
UnavailableNotRetried ==
    [][\A p \in Procs :
        /\ (proc[p].pc = "extCall" /\ extractionSettles(p, Failure("unavailable")))
             => /\ proc'[p].pc = "idle"
                /\ ~isExtracting'
                /\ last'.calls = 1 /\ last'.waits = 0
                /\ last'.status # ""
        /\ (proc[p].pc = "rsCall" /\ rescanCallSettles(p, Failure("unavailable")))
             => /\ proc'[p].pc = "idle"
                /\ ~isRescanning'
                /\ last'.calls = 1 /\ last'.waits = 0
                /\ last'.status # ""]_vars

\* the single-message half of C14
ExtractionUnavailableOnce ==
    [][\A p \in Procs :
        (proc[p].pc = "extCall" /\ extractionSettles(p, Failure("unavailable")))
          => /\ proc'[p].pc = "idle"
             /\ ~isExtracting'
             /\ last'.calls = 1 /\ last'.waits = 0
             /\ last'.status # ""]_vars

\* C15: once cancellation is requested, the call or wait under way is left
\* to complete, and its completion starts no further call and no further
\* wait: the rescan is idle as soon as that step is over.
CancelEndsAtNextStep ==
    [][\A p \in Procs :
        (rescanAbort /\ Scanning(p) /\ proc'[p] # proc[p])
          => /\ proc'[p].pc = "idle"
             /\ ~isRescanning']_vars

\* a wait is under way although cancellation had been requested before it
WaitingAfterCancel ==
    \E p \in Procs : rescanAbort /\ proc[p].pc = "rsWait"

\* a message the single-message handler would process if nothing were running
Arrives(m) ==
    /\ ~m.is_user
    /\ cleanTextOf(m) # <<>>
    /\ cleanTextOf(m) # lastMessageText
    /\ onMessageReceived(<<m>>)

\* C19: a caller turned away by a busy flag (a message arriving while a scan
\* of either kind runs, a rescan requested while one runs) makes no call,
\* enqueues nothing, changes no pipeline state and reports a status.
BlockedCallerOnlyReports ==
    [][/\ ((isExtracting \/ isRescanning) /\ \E m \in RescanMsgs : Arrives(m))
           => /\ UNCHANGED <<gistFiles, pendingQueue, lastMessageText, isExtracting,
                              isRescanning, rescanAbort, proc, nextUid>>
              /\ last'.status # ""
       /\ ((isExtracting \/ isRescanning)
             /\ \E chat \in RescanChats, count \in Counts : rescanHistory(chat, count, FALSE))
           => /\ UNCHANGED <<gistFiles, pendingQueue, lastMessageText, isExtracting,
                              isRescanning, rescanAbort, proc, nextUid>>
              /\ last'.status # ""]_vars

\* the rescan half of C19
BlockedRescanOnlyReports ==
    [][((isExtracting \/ isRescanning)
         /\ \E chat \in RescanChats, count \in Counts : rescanHistory(chat, count, FALSE))
        => /\ UNCHANGED <<gistFiles, pendingQueue, lastMessageText, isExtracting,
                           isRescanning, rescanAbort, proc, nextUid>>
           /\ last'.status # ""]_vars

\* a message that arrived during a rescan was recorded as the last one seen
RecordedWhileScanning ==
    /\ isRescanning
    /\ lastMessageText = <<"f">>
    /\ last.status = ""

----------------------------------------------------------------------------
(* Properties of the scan window and of pass 1 *)

\* the turns a scan may look at, in chat order
IsTurn(m) == ~m.is_user /\ (m.body # <<>> \/ m.forge.present)
Eligible(chat) == SelectSeq(chat, IsTurn)
\* the last n elements of a sequence
Newest(seq, n) == SubSeq(seq, IF Len(seq) > n THEN Len(seq) - n + 1 ELSE 1, Len(seq))
Turns(chat, count) == Newest(Eligible(chat), count)

\* the changes of the structured blocks of a run of turns, turn after turn
RECURSIVE BlockItems(_)
BlockItems(turns) ==
    IF turns = <<>> THEN <<>>
    ELSE LET m == Head(turns)
         IN  (IF m.forge.present
              THEN NewItems(normalizeForgeBlock(m.forge, gistFiles), gistFiles)
              ELSE <<>>) \o BlockItems(Tail(turns))

\* a turn of prose that names the stored NPC
NamesStoredNpc(m) ==
    /\ ~m.forge.present
    /\ \/ includes(toLowerCase(m.body), toLowerCase(Ski))
       \/ includes(toLowerCase(m.body), toLowerCase(TayHeb))
OrphanTurns(chat, count) == SelectSeq(Turns(chat, count), NamesStoredNpc)

Unnumbered(items) == [i \in 1..Len(items) |-> [items[i] EXCEPT !.id = 0]]
IsPrefix(a, b) == Len(a) <= Len(b) /\ SubSeq(b, 1, Len(a)) = a
StartsCall == \E p \in Procs : proc[p].pc = "idle" /\ proc'[p].pc = "rsCall"

\* C16: the window of a rescan is the newest `count` non-user, non-empty
\* turns; pass 1 handles them oldest to newest, so its changes are queued in
\* chat order, behind what was queued before; the pass-2 call is issued when
\* pass 1 is over, and its changes are queued behind those of pass 1.
Pass1InChatOrder ==
    /\ [](\A i, j \in 1..Len(pendingQueue) : i < j => pendingQueue[i].id < pendingQueue[j].id)
    /\ [][/\ \A chat \in WindowChats, count \in Counts, forgeOnly \in BOOLEAN :
              (~RescanBlocked /\ rescanHistory(chat, count, forgeOnly))
                => /\ pendingQueue' = pendingQueue \o AddedItems
                   /\ Unnumbered(AddedItems) = Unnumbered(BlockItems(Turns(chat, count)))
                   /\ StartsCall => last'.batch = Len(OrphanTurns(chat, count))
           /\ \A p \in Procs, resp \in WindowResponses :
              (proc[p].pc = "rsCall" /\ rescanCallSettles(p, resp))
                => /\ IsPrefix(pendingQueue, pendingQueue')
                   /\ \A i \in 1..Len(AddedItems) : AddedItems[i].type = "world_state"]_vars

\* two structured blocks of one window are queued, the older turn's first
OlderBlockQueuedFirst ==
    /\ Len(pendingQueue) = 2
    /\ pendingQueue[1].type = "date_advance"
    /\ pendingQueue[2].type = "divergence"
    /\ last.status = "rescan complete"

\* C17: a rescan in structured-block-only mode, or whose window holds no
\* orphan turn, issues no extraction call: it is idle again when pass 1 ends.
NoCallWithoutOrphans ==
    [][\A chat \in WindowChats, count \in Counts, forgeOnly \in BOOLEAN :
        (~RescanBlocked /\ Turns(chat, count) # <<>>
            /\ (forgeOnly \/ OrphanTurns(chat, count) = <<>>)
            /\ rescanHistory(chat, count, forgeOnly))
          => /\ proc' = proc
             /\ ~isRescanning'
             /\ last'.status = "rescan complete"]_vars

\* a rescan over prose that names no NPC ended without a call
AtmosphereOnlyEnded ==
    /\ last.status = "rescan complete"
    /\ last.calls = 0
    /\ pendingQueue = <<>>
    /\ InFlight = {}
    /\ ~isRescanning

----------------------------------------------------------------------------
(* Properties of the deferred remote write *)

\* an accept handler ran to its end (persistLocal, schedulePushToGist)
Committed == AcceptStep /\ last'.persist
Written == syncTimer /\ ~syncTimer'

----------------------------------------------------------------------------
(* Termination of a rescan *)

\* C20: a rescan that passed its guards goes from pass 1 to pass 2 or to its
\* end and from there to idle: isRescanning is false again on every path,
\* one on which proposing a turn's changes raises included.
BusyFlagReleased == isRescanning ~> ~isRescanning

\* the same for the rescans that reach pass 2: the flag is set while a call
\* or a wait is under way and is released when the last of them is over
BusyOnlyWhileCalling ==
    [][(\E p \in Procs : Scanning(p) /\ proc'[p].pc = "idle") => ~isRescanning']_vars

\* the flag is set and nothing is under way that could release it
BusyWithNothingUnderWay ==
    /\ isRescanning
    /\ InFlight = {}

----------------------------------------------------------------------------
(* Structured blocks that are not objects                                    *)
(* extractForgeBlock (parser.js 99-109) returns JSON.parse of the block's    *)
(* text, or null when there is no block or its text is not JSON.  The field  *)
(* block of a message's forge says which: "none", "object" (the JSON is an   *)
(* object), "falsy" (the JSON is null, false, 0 or "") or "broken" (not      *)
(* JSON); present is the truthiness of what extractForgeBlock returns.       *)

FalsyBlock == [NoForge EXCEPT !.block = "falsy"]
BrokenBlock == [NoForge EXCEPT !.block = "broken"]

BlockMsgs == {PlainMsg, ForgeMsg(<<"f">>, ForgeDiv(1)), ForgeMsg(<<"e">>, ForgeEmpty),
              ForgeMsg(<<"n">>, FalsyBlock), ForgeMsg(<<"b">>, BrokenBlock)}
BlockResponses == {Ok(LlmDiv(1)), Ok(NoDelta), Failure("null"), Failure("other")}

NextBlock ==
    \/ \E m \in BlockMsgs : onMessageReceived(<<m>>)
    \/ \E p \in Procs, resp \in BlockResponses : extractionSettles(p, resp)
    \/ \E m \in BlockMsgs : rescanHistory(<<m>>, 1, FALSE)
    \/ \E p \in Procs, resp \in BlockResponses : rescanCallSettles(p, resp)
    \/ \E id \in 1..MaxUid : denyChange(id)
    \/ denyAll

SpecBlock == Init /\ [][NextBlock]_vars

\* the block of the message is there and its text is JSON
Parses(m) == m.forge.block \in {"object", "falsy"}
StartsExtraction == \E p \in Procs : proc[p].pc = "idle" /\ proc'[p].pc = "extCall"

\* C21: when the newest AI turn carries a structured block that parses, the
\* single-message handler starts no extraction call and does not set
\* isExtracting, whether or not the block's delta is empty; a call is started
\* only for a turn without a parseable block.
NoCallWhenBlockParses ==
    [][\A m \in BlockMsgs :
           (Parses(m) /\ Arrives(m)) => (~StartsExtraction /\ isExtracting' = isExtracting)]_vars

\* the same for the blocks whose JSON is an object
NoCallWhenBlockIsObject ==
    [][\A m \in BlockMsgs :
           (m.forge.block = "object" /\ Arrives(m))
               => (~StartsExtraction /\ isExtracting' = isExtracting)]_vars

\* a turn whose block is the JSON null has been recorded and a call is under way
CallForParsedBlock ==
    /\ lastMessageText = <<"n">>
    /\ isExtracting
    /\ \E p \in Procs : proc[p].pc = "extCall"


\* the extraction call of process p (of either handler) answers with text that
\* is not a JSON object
NullResponse(p) ==
    \/ extractionSettles(p, Failure("null"))
    \/ rescanCallSettles(p, Failure("null"))
ErrorStatuses == {"extraction error", "LLM batch error", "rate limited"}

\* C22: a response that is not valid JSON, or not a non-array object, is
\* taken as "no changes" by the single-message handler and by pass 2:
\* nothing is enqueued, the store is untouched, no error status is shown, the
\* call is not retried and the handler's busy flag is released.
NullResponseIsNoChange ==
    [][\A p \in Procs :
           NullResponse(p) =>
               /\ pendingQueue' = pendingQueue
               /\ gistFiles' = gistFiles
               /\ last'.status \notin ErrorStatuses
               /\ proc'[p] = IdleProc
               /\ last'.calls = proc[p].attempts
               /\ proc[p].pc = "extCall" => ~isExtracting'
               /\ proc[p].pc = "rsCall" => ~isRescanning']_vars

\* a rescan whose one call was answered without changes has ended
NoChangeRescanEnded ==
    /\ last.calls = 1
    /\ last.status \notin ErrorStatuses \cup {""}
    /\ pendingQueue = <<>>
    /\ ~isRescanning
    /\ lastMessageText = <<>>

----------------------------------------------------------------------------
(* Name resolution: blocks that name one character each, against a store    *)
(* that grows by the accepted new NPCs.                                      *)

Skipper == <<"S", "k", "i", "p", "p", "e", "r">>
PaddedSki == <<" ", "s", "K", "I", " ">>
Kipp == <<"k", "i", "p", "p">>
Ba == <<"B", "a">>
ResolveNames == {TayHeb, Tay, Ski, PaddedSki, Skipper, Kipp, Arm, Bad, Ba}

ForgeName(name) == Forge(0, <<>>, <<Upd(name, "ally")>>, <<>>)
NameMsg(name) == ForgeMsg(name, ForgeName(name))
ForgeNewSkipper == Forge(0, <<>>, <<>>, <<NpcSpec(Skipper), NpcSpec(Arm)>>)
NewSkipperMsg == ForgeMsg(<<"g">>, ForgeNewSkipper)

NextResolve ==
    \/ \E name \in ResolveNames : onMessageReceived(<<NameMsg(name)>>)
    \/ onMessageReceived(<<NewSkipperMsg>>)
    \/ \E id \in 1..MaxUid : acceptChange(id)
    \/ \E id \in 1..MaxUid : denyChange(id)

SpecResolve == Init /\ [][NextResolve]_vars

\* the names an NPC document answers to, lowercased
NamesOf(doc) ==
    {toLowerCase(x) :
        x \in ({doc.display_name, doc.alias}
                   \cup {doc.aliases[i] : i \in 1..Len(doc.aliases)}) \ {<<>>}}
\* the i-th file of the store is a document one of whose names contains n or
\* is contained in n
Answers(store, i, n) ==
    /\ ~store.npcs[i].doc.raw
    /\ \E c \in NamesOf(store.npcs[i].doc) : includes(c, n) \/ includes(n, c)
\* what the resolver is to return for a name
Resolved(name, store) ==
    LET n == trim(toLowerCase(name))
        slug == replaceWsRuns(n)
    IN  IF slug \in NpcKeys(store) THEN [ok |-> TRUE, key |-> slug]
        ELSE IF \E i \in 1..Len(store.npcs) : Answers(store, i, n)
        THEN LET first == CHOOSE i \in 1..Len(store.npcs) :
                              /\ Answers(store, i, n)
                              /\ \A j \in 1..(i - 1) : ~Answers(store, j, n)
             IN  [ok |-> TRUE, key |-> store.npcs[first].key]
        ELSE NoKey
\* the name is, up to case, the display_name or the alias of a document
IsNameOfNpc(name, store) ==
    \E i \in 1..Len(store.npcs) :
        /\ ~store.npcs[i].doc.raw
        /\ toLowerCase(name) \in
               {toLowerCase(store.npcs[i].doc.display_name),
                toLowerCase(store.npcs[i].doc.alias)} \ {<<>>}

----------------------------------------------------------------------------
(* Blocks whose npc_updates name a character the store does not know (Arm)   *)
(* ahead of one it knows (Ski), next to the other fields of a block.         *)

UpdAll(name, rel, emotional, physical, learned, at) ==
    [name |-> name, relationship |-> rel, emotional_state |-> emotional,
     physical_state |-> physical, learned |-> learned, at |-> at]

ForgeRelArc ==
    [Forge(1, <<>>, <<Upd(Arm, "foe"), Upd(Ski, "ally")>>, <<>>)
        EXCEPT !.arc_event = TheRaid]
ForgeLearnedDate ==
    [Forge(0, <<WsField("faction_status", "war", NoDiv)>>,
           <<UpdAll(Arm, "", "", "", "a secret", 1),
             UpdAll(Ski, "", "", "", "the plan", 1)>>, <<>>)
        EXCEPT !.in_world_date = "day 2"]
ForgeStateNew ==
    Forge(0, <<>>, <<UpdAll(Arm, "", "angry", "", "", 0),
                     UpdAll(Ski, "", "calm", "hurt", "", 0)>>, <<NpcSpec(Arm)>>)
ForgeUnknownOnly == [Forge(0, <<>>, <<Upd(Arm, "foe")>>, <<>>) EXCEPT !.in_world_date = "day 3"]

NormalizeMsgs == {ForgeMsg(<<"1">>, ForgeRelArc), ForgeMsg(<<"2">>, ForgeLearnedDate),
                  ForgeMsg(<<"3">>, ForgeStateNew), ForgeMsg(<<"4">>, ForgeUnknownOnly)}

NextNormalize ==
    \/ \E m \in NormalizeMsgs : onMessageReceived(<<m>>)
    \/ \E m \in NormalizeMsgs : rescanHistory(<<m>>, 1, TRUE)
    \/ \E id \in 1..MaxUid : acceptChange(id)
    \/ \E id \in 1..MaxUid : denyChange(id)

SpecNormalize == Init /\ [][NextNormalize]_vars

NpcTypes == {"npc_knowledge", "npc_relationship", "npc_state"}
OfType(items, type) == {i \in 1..Len(items) : items[i].type = type}
Count(S) == Cardinality(S)

----------------------------------------------------------------------------
(* Extraction responses in the shape the normalizer would have rewritten:   *)
(* the date inside world_state, a relationship keyed by a file the store     *)
(* does not have.                                                            *)

NestedDate == WsField("in_world_date", "day 2", NoDiv)
LlmNestedDate == [NoDelta EXCEPT !.world_state = <<NestedDate>>]
LlmUnknownNpc ==
    [NoDelta EXCEPT !.npc_relationship = <<[file |-> npcFilename(Arm), rel |-> "foe"]>>]
ForgeNestedDate == Forge(0, <<NestedDate>>, <<Upd(Arm, "foe")>>, <<>>)

RawMsgs == {PlainMsg, ForgeMsg(<<"d">>, ForgeNestedDate)}
RawResponses == {Ok(LlmNestedDate), Ok(LlmUnknownNpc), Ok(LlmDiv(1))}

NextRaw ==
    \/ \E m \in RawMsgs : onMessageReceived(<<m>>)
    \/ \E p \in Procs, resp \in RawResponses : extractionSettles(p, resp)
    \/ \E m \in RawMsgs : rescanHistory(<<m>>, 1, FALSE)
    \/ \E p \in Procs, resp \in RawResponses : rescanCallSettles(p, resp)
    \/ \E id \in 1..MaxUid : denyChange(id)
    \/ denyAll

SpecRaw == Init /\ [][NextRaw]_vars

CanonicalItem(item, store) ==
    /\ item.type = "world_state" => item.field # "in_world_date"
    /\ item.type \in NpcTypes => item.npcFile \in NpcKeys(store)

\* C25: every delta that reaches the Review Queue, from a structured block or
\* from the extraction call, has been through the Delta Normalizer: no queued
\* world_state change is for the field in_world_date, and every queued NPC
\* change is keyed by a key the resolver returned, a key of the store.
QueuedDeltasCanonical ==
    \A i \in 1..Len(pendingQueue) : CanonicalItem(pendingQueue[i], gistFiles)

\* the same for the changes a structured block adds
BlockDeltasCanonical ==
    [][\A m \in RawMsgs :
           (m.forge.present /\ Arrives(m)) =>
               \A i \in 1..Len(AddedItems) : CanonicalItem(AddedItems[i], gistFiles)]_vars

\* the date an extraction response nested in world_state is queued as a
\* world_state change
NestedDateQueued ==
    \E i \in 1..Len(pendingQueue) :
        /\ pendingQueue[i].type = "world_state"
        /\ pendingQueue[i].field = "in_world_date"

----------------------------------------------------------------------------
(* The remote store: writes that fail and fetches, next to the queue.        *)

NextRemote ==
    \/ \E m \in QueueMsgs : onMessageReceived(<<m>>)
    \/ \E id \in 1..MaxUid : acceptChange(id)
    \/ acceptAll
    \/ tick
    \/ pushToGist
    \/ pushFails
    \/ \E fetched \in BOOLEAN : syncFromGist(fetched)

SpecRemote == Init /\ [][NextRemote]_vars

RemoteFailure == pushFails \/ syncFromGist(FALSE)

\* C26: a remote write or a remote fetch that fails is shown as a status; the
\* store keeps every change applied so far, the review queue is as it was and
\* no exception leaves the handler.
RemoteFailureOnlyReported ==
    [][RemoteFailure =>
           /\ last'.status \in {"save failed", "sync failed"}
           /\ ~last'.raised
           /\ gistFiles' = gistFiles
           /\ pendingQueue' = pendingQueue
           /\ remote' = remote]_vars

\* a write has failed: the accepted change is in the store and not in the gist,
\* and a change is still waiting in the queue
FailedWriteKeptChanges ==
    /\ last.status = "save failed"
    /\ gistFiles # remote
    /\ pendingQueue # <<>>
    /\ ~syncTimer

----------------------------------------------------------------------------
(* The Text Normalizer on texts made of one recognized span, what stands     *)
(* before it and what stands after it: plain text, nothing, and the halves   *)
(* of a tag that the removal of the span brings together.                    *)

BeforeSpan ==
    {<<>>,
     <<"x", " ">>,
     <<"<", "t", "h", "i">>,
     <<"<", "t", "h", "i", "n", "k", ">">>,
     <<"'", "'">>}
Spans ==
    {<<"<", "t", "h", "i", "n", "k", ">", "a", "<", "/", "t", "h", "i", "n", "k", ">">>,
     <<"<", "T", "H", "I", "N", "K", "I", "N", "G", ">", "a", "<", "/", "t", "h", "i", "n", "k", "i", "n", "g", ">">>,
     <<"'", "'", "'", "w", "s", "t", "{", "}", "'", "'", "'">>,
     <<"<", "c", "o", "u", "n", "c", "i", "l", " ", "x", ">", "b", "<", "/", "c", "o", "u", "n", "c", "i", "l", ">">>}
AfterSpan ==
    {<<>>,
     <<" ", "y">>,
     <<"n", "k", ">", "b", "<", "/", "t", "h", "i", "n", "k", ">">>,
     <<"<", "/", "t", "h", "i", "n", "k", ">">>,
     <<"'", "w", "s", "t", "'", "'", "'">>}
StripTexts == {l \o m \o r : l \in BeforeSpan, m \in Spans, r \in AfterSpan}

NextStrip ==
    \/ \E t \in StripTexts : onMessageReceived(<<Msg(FALSE, t, NoForge)>>)
    \/ \E p \in Procs, resp \in {Ok(LlmDiv(1)), Failure("null")} : extractionSettles(p, resp)

SpecStrip == Init /\ [][NextStrip]_vars

\* C27: the Text Normalizer is idempotent, also where the removal of a span
\* makes the text around it a recognized span: the text the handler has
\* recorded, which is the normalizer's output, is left as it is by the
\* normalizer.
StripIdempotent == stripThinkingBlocks(lastMessageText) = lastMessageText

\* the same for the texts in which the span stands between plain text
StripIdempotentOnPlainText ==
    \A l \in {<<>>, <<"x", " ">>}, m \in Spans, r \in {<<>>, <<" ", "y">>} :
        LET once == stripThinkingBlocks(l \o m \o r)
        IN  stripThinkingBlocks(once) = once

\* the recorded text is itself a span that the normalizer removes
RecordedTextIsSpan ==
    /\ lastMessageText # <<>>
    /\ stripThinkingBlocks(lastMessageText) = <<>>

----------------------------------------------------------------------------
(* Learned knowledge: blocks with two learned updates for one character,     *)
(* under the name and under the alias, normalized within one reading of the  *)
(* clock or at two readings.                                                 *)

Learned(name, learned, at) == UpdAll(name, "", "", "", learned, at)
ForgeLearned(at1, at2) ==
    Forge(0, <<>>, <<Learned(Tay, "a secret", at1), Learned(Ski, "the plan", at2)>>, <<>>)
ForgeLearnedOnce(at) == Forge(0, <<>>, <<Learned(Ski, "the route", at)>>, <<>>)

LearnMsgs == {ForgeMsg(<<"1">>, ForgeLearned(1, 1)), ForgeMsg(<<"2">>, ForgeLearned(1, 2)),
              ForgeMsg(<<"3">>, ForgeLearnedOnce(2))}

NextLearn ==
    \/ \E m \in LearnMsgs : onMessageReceived(<<m>>)
    \/ \E m \in LearnMsgs : rescanHistory(<<m>>, 1, TRUE)
    \/ \E id \in 1..MaxUid : acceptChange(id)
    \/ \E id \in 1..MaxUid : denyChange(id)

SpecLearn == Init /\ [][NextLearn]_vars

LearnedUpdates(f, store) ==
    {j \in 1..Len(f.npc_updates) :
        /\ f.npc_updates[j].learned # ""
        /\ resolveNpcFilename(f.npc_updates[j].name, store).ok}
HasField(doc, e) == \E k \in 1..Len(doc.fields) : doc.fields[k] = e

\* C28: learned entries never overwrite one another: the field names made
\* for the learned updates of one NPC are pairwise distinct, also within one
\* block and within one reading of the clock, so that every learned update
\* of a block has its change in the queue and accepting a learned change
\* leaves the entries the document had in place.
LearnedKeysDistinct ==
    [][/\ \A m \in LearnMsgs :
              Arrives(m) =>
                  Count(OfType(AddedItems, "npc_knowledge"))
                      = Count(LearnedUpdates(m.forge, gistFiles))
       /\ \A id \in 1..MaxUid :
              acceptChange(id) =>
                  \A i \in 1..Len(gistFiles.npcs) :
                      \A k \in 1..Len(gistFiles.npcs[i].doc.fields) :
                          HasField(gistFiles'.npcs[i].doc, gistFiles.npcs[i].doc.fields[k])]_vars

\* the same for the blocks whose updates are normalized at different readings
LearnedKeptAcrossReadings ==
    [][\A m \in LearnMsgs :
           (Arrives(m) /\ \A i, j \in 1..Len(m.forge.npc_updates) :
                              i # j => m.forge.npc_updates[i].at # m.forge.npc_updates[j].at)
               => Count(OfType(AddedItems, "npc_knowledge"))
                      = Count(LearnedUpdates(m.forge, gistFiles))]_vars

\* of the two things learned in one block only the second is in the queue
LearnedEntryLost ==
    /\ lastMessageText = <<"1">>
    /\ Len(pendingQueue) = 1
    /\ pendingQueue[1].type = "npc_knowledge"
    /\ pendingQueue[1].s = "the plan"

----------------------------------------------------------------------------
(* Changes that wait in the queue while the store moves on: two              *)
(* relationships and a state for the same character.                         *)

ForgeCalm == Forge(0, <<>>, <<UpdAll(Ski, "", "calm", "", "", 0)>>, <<>>)
StaleMsgs == {ForgeMsg(<<"a">>, ForgeName(Ski)),
              ForgeMsg(<<"b">>, Forge(0, <<>>, <<Upd(Ski, "foe")>>, <<>>)),
              ForgeMsg(<<"c">>, ForgeCalm)}

NextStale ==
    \/ \E m \in StaleMsgs : onMessageReceived(<<m>>)
    \/ \E id \in 1..MaxUid : acceptChange(id)
    \/ \E id \in 1..MaxUid : denyChange(id)
    \/ acceptAll

SpecStale == Init /\ [][NextStale]_vars

DocOf(store, file) == store.npcs[FileIndex(store, file)].doc
Queued(id) == pendingQueue[findIndex(pendingQueue, id)]
InQueue(id) == findIndex(pendingQueue, id) # 0

----------------------------------------------------------------------------
(* Extraction responses with several changes of one kind: two knowledge      *)
(* paths of one document next to a state of two fields; a world_state field, *)
(* an arc event and a relationship; a new NPC that the store already has.    *)

Path(field, value) == [field |-> field, at |-> 0, value |-> value]
LlmKnowState ==
    [NoDelta EXCEPT
        !.npc_knowledge = <<[file |-> npcFilename(TayHeb),
                             changes |-> <<Path("history", "exile"),
                                           Path("personality", "dry")>>]>>,
        !.npc_current_state = <<[file |-> npcFilename(TayHeb),
                                 emotional_state |-> "calm",
                                 physical_state |-> "hurt"]>>]
LlmWsArcRel ==
    [NoDelta EXCEPT
        !.world_state = <<WsField("faction_status", "war", NoDiv)>>,
        !.arc_events = <<[id |-> eventKey(TheRaid), status |-> "fired-canon"]>>,
        !.npc_relationship = <<[file |-> npcFilename(TayHeb), rel |-> "ally"]>>]
LlmKnownNpc == [NoDelta EXCEPT !.new_npcs = <<NpcSpec(TayHeb)>>]

AtomicMsgs == {PlainMsg, AtmoMsg}
AtomicResponses == {Ok(LlmKnowState), Ok(LlmWsArcRel), Ok(LlmKnownNpc)}

NextAtomic ==
    \/ \E m \in AtomicMsgs : onMessageReceived(<<m>>)
    \/ \E p \in Procs, resp \in AtomicResponses : extractionSettles(p, resp)
    \/ \E id \in 1..MaxUid : acceptChange(id)
    \/ \E id \in 1..MaxUid : denyChange(id)

SpecAtomic == Init /\ [][NextAtomic]_vars

Paths(delta) == SumSeq([i \in 1..Len(delta.npc_knowledge) |->
                            Len(delta.npc_knowledge[i].changes)])

\* C30: proposeDelta makes one Proposed Change per atomic change: as many
\* knowledge changes as the delta's npc_knowledge has field paths, one
\* change per npc_current_state entry whatever fields it holds, one per
\* world_state field, per arc_events entry and per npc_relationship entry;
\* the changes go behind those queued, and a delta that yields none leaves
\* the queue as it is.
OneChangePerAtomicChange ==
    [][\A p \in Procs, resp \in AtomicResponses :
           extractionSettles(p, resp) =>
               LET delta == resp.delta
                   added == AddedItems
               IN  /\ IsPrefix(pendingQueue, pendingQueue')
                   /\ Count(OfType(added, "npc_knowledge")) = Paths(delta)
                   /\ Count(OfType(added, "npc_state")) = Len(delta.npc_current_state)
                   /\ Count(OfType(added, "world_state")) = Len(delta.world_state)
                   /\ Count(OfType(added, "arc_event")) = Len(delta.arc_events)
                   /\ Count(OfType(added, "npc_relationship")) = Len(delta.npc_relationship)
                   /\ Len(added) = Paths(delta) + Len(delta.npc_current_state)
                          + Len(delta.world_state) + Len(delta.arc_events)
                          + Len(delta.npc_relationship)
                   /\ delta = LlmKnownNpc => pendingQueue' = pendingQueue]_vars

\* two knowledge changes and one state change of two fields are queued
TwoPathsOneState ==
    /\ Len(pendingQueue) = 3
    /\ pendingQueue[1].type = "npc_knowledge" /\ pendingQueue[1].field = "history"
    /\ pendingQueue[2].type = "npc_knowledge" /\ pendingQueue[2].field = "personality"
    /\ pendingQueue[3].type = "npc_state"
    /\ pendingQueue[3].state = [emotional_state |-> "calm", physical_state |-> "hurt"]

----------------------------------------------------------------------------
(* The divergence log *)

Logged(store) == Divergence(store).logged_divergences
DivDeltas(items) ==
    LET IsDiv(item) == item.type = "divergence"
        picked == SelectSeq(items, IsDiv)
    IN  [i \in 1..Len(picked) |-> picked[i].n]

\* C31: each accepted divergence change appends exactly one record, carrying
\* its delta, to the divergence log and raises the rating by that delta; an
\* acceptAll of divergence changes appends one record per change, in order,
\* and raises the rating by their sum; a denied change appends nothing.
OneLogRecordPerAccept ==
    [][/\ \A id \in Ids :
              (/\ InQueue(id) /\ Queued(id).type = "divergence"
               /\ acceptChange(id)) =>
                  /\ Logged(gistFiles)' = Append(Logged(gistFiles), Queued(id).n)
                  /\ Rating(gistFiles)' = Rating(gistFiles) + Queued(id).n
       /\ (/\ acceptAll
           /\ \A i \in 1..Len(pendingQueue) : pendingQueue[i].type = "divergence") =>
              /\ Logged(gistFiles)' = Logged(gistFiles) \o DivDeltas(pendingQueue)
              /\ Rating(gistFiles)' =
                     Rating(gistFiles) + SumSeq(DivDeltas(pendingQueue))
       /\ DenyStep => Logged(gistFiles)' = Logged(gistFiles)]_vars

\* a divergence change queued while no world state was loaded (the chat had
\* just been switched) was accepted: it left the queue, and the store has
\* neither the record nor the rating
AcceptedWithoutRecord ==
    /\ last.ran = <<1>> /\ last.persist /\ ~last.raised
    /\ pendingQueue = <<>> /\ nextUid = 1
    /\ gistFiles = EmptyStore

----------------------------------------------------------------------------
(* Commits run at most once *)

\* the ids whose commit ran to its end in the accept just made
AppliedIn(l) ==
    {l.ran[k] : k \in {j \in 1..Len(l.ran) : ~l.raised \/ j < Len(l.ran)}}

\* C32: over any sequence of acceptChange and acceptAll calls, an item whose
\* commit has executed successfully is no longer in the queue afterwards, also
\* when a later item's commit raises during acceptAll, so that no repeated
\* accept can run the same commit again.
AppliedItemsLeaveQueue ==
    [][AcceptStep =>
           \A id \in AppliedIn(last') : findIndex(pendingQueue', id) = 0]_vars

\* acceptAll raised at its second commit: the first item, whose commit ran to
\* its end, is still queued
AppliedItemStillQueued ==
    /\ last.raised /\ Len(last.ran) = 2
    /\ InQueue(last.ran[1])
    /\ RelationshipOf(gistFiles, 1) = Queued(last.ran[1]).s

----------------------------------------------------------------------------
(* Chat switches: the cached state of the chat switched to, or none, while  *)
(* an extraction call may be in flight.                                     *)

CachedStore == [LoadedStore(InitThreshold) EXCEPT !.ws.in_world_date = "day 9"]
Caches == {EmptyStore, CachedStore}
SwitchMsgs == {PlainMsg, ForgeMsg(<<"g">>, ForgeDate)}

NextSwitch ==
    \/ \E m \in SwitchMsgs : onMessageReceived(<<m>>)
    \/ \E p \in Procs : extractionSettles(p, Ok(LlmDiv(1)))
    \/ \E cache \in Caches : chatChanged(cache)
    \/ \E fetched \in BOOLEAN : syncFromGist(fetched)
    \/ \E id \in 1..MaxUid : acceptChange(id)
    \/ denyAll

SpecSwitch == Init /\ [][NextSwitch]_vars

Switches == \E cache \in Caches : chatChanged(cache)
EndsAfterSwitch(p) == proc[p].switched /\ proc'[p].pc = "idle"

\* C33: a chat_changed event leaves the review queue empty, and an extraction
\* call or rescan that was in flight when the event arrived adds nothing to
\* the queue of the chat switched to when it ends; the busy flag it held is
\* released at that moment.
SwitchIsolatesSessions ==
    [][/\ Switches => pendingQueue' = <<>>
       /\ \A p \in Procs :
              EndsAfterSwitch(p) =>
                  /\ pendingQueue' = pendingQueue
                  /\ ~isExtracting' /\ ~isRescanning']_vars

\* the flags half: the operation that was in flight at the switch releases
\* its flag when it ends
FlagsReleasedAfterSwitch ==
    [][\A p \in Procs :
           EndsAfterSwitch(p) => (~isExtracting' /\ ~isRescanning')]_vars

\* the chat switched to has had no message, and its queue holds the change the
\* call made for the chat before proposed, computed against the cached
\* documents of the new chat
ForeignChangeQueued ==
    /\ lastMessageText = <<>>
    /\ gistFiles = CachedStore
    /\ Len(pendingQueue) = 1
    /\ pendingQueue[1].type = "divergence"
    /\ \A p \in Procs : proc[p].pc = "idle"

----------------------------------------------------------------------------
(* Chat switches and fetches while a remote write is pending; the timer     *)
(* callback runs once it is due.                                            *)

ChatMsgs == {ForgeMsg(<<"g">>, ForgeDate), ForgeMsg(<<"f">>, ForgeDiv(2))}

NextChat ==
    \/ \E m \in ChatMsgs : onMessageReceived(<<m>>)
    \/ \E id \in 1..MaxUid : acceptChange(id)
    \/ \E cache \in Caches : chatChanged(cache)
    \/ \E fetched \in BOOLEAN : syncFromGist(fetched)
    \/ tick
    \/ pushToGist

SpecChat == Init /\ [][NextChat]_vars /\ WF_vars(tick) /\ WF_vars(pushToGist)

\* C34: an accepted change is eventually written to the remote store: a
\* chat_changed or a fetch between the accept and the firing of the debounce
\* timer leaves the timer pending, and the write that follows carries the
\* accepted change (here the accepted date), not the documents of another
\* chat or the documents just fetched.
AcceptedChangeReachesRemote ==
    /\ [][(Switches \/ \E fetched \in BOOLEAN : syncFromGist(fetched))
              => (syncTimer' = syncTimer /\ timerLeft' = timerLeft)]_vars
    /\ (syncTimer /\ gistFiles.ws.in_world_date = "day 2")
           ~> (remote.ws.in_world_date = "day 2")

\* the timer half: neither event drops or delays the pending write
SwitchKeepsTimer ==
    [][(Switches \/ \E fetched \in BOOLEAN : syncFromGist(fetched))
           => (syncTimer' = syncTimer /\ timerLeft' = timerLeft)]_vars

\* the write that was pending when the chat was switched has been made: the
\* remote store has the cached documents of the chat switched to and not the
\* date accepted before the switch
OtherChatWritten ==
    /\ ~syncTimer /\ last.status = "saved"
    /\ remote = CachedStore
    /\ gistFiles = CachedStore
    /\ nextUid = 1

----------------------------------------------------------------------------
(* A new NPC proposed twice before either proposal is accepted, and an       *)
(* update to it once its document exists.                                    *)

ForgeArm == Forge(0, <<>>, <<>>, <<NpcSpec(Arm)>>)
ForgeArmAlly == Forge(0, <<>>, <<Upd(Arm, "ally")>>, <<>>)
ScaffoldMsgs == {ForgeMsg(<<"f">>, ForgeArm), ForgeMsg(<<"g">>, ForgeArm),
                 ForgeMsg(<<"h">>, ForgeArmAlly)}

NextScaffold ==
    \/ \E m \in ScaffoldMsgs : onMessageReceived(<<m>>)
    \/ \E id \in 1..MaxUid : acceptChange(id)
    \/ \E id \in 1..MaxUid : denyChange(id)

SpecScaffold == Init /\ [][NextScaffold]_vars

\* C35: accepting a new_npc change never replaces an NPC document that exists
\* at accept time: a document created after the change was proposed, and the
\* fields accepted into it since, are as they were after the accept.
NewNpcKeepsExisting ==
    [][\A id \in Ids :
           (/\ InQueue(id) /\ Queued(id).type = "new_npc"
            /\ HasFile(gistFiles, Queued(id).npcFile)
            /\ acceptChange(id)) =>
               DocOf(gistFiles', Queued(id).npcFile)
                   = DocOf(gistFiles, Queued(id).npcFile)]_vars

\* both proposals for the same name were accepted, the second after an update
\* to the document the first had created: the relationship accepted in
\* between is gone
ScaffoldedOverUpdate ==
    /\ last.ran = <<2>> /\ last.persist
    /\ nextUid = 3 /\ pendingQueue = <<>>
    /\ HasFile(gistFiles, npcFilename(Arm))
    /\ DocOf(gistFiles, npcFilename(Arm)).relationship = "not yet met"

----------------------------------------------------------------------------
(* Arc events: an event of the current arc that the store has, and one it   *)
(* does not have, each named by a legacy free-text arc_event.               *)

TheFeast == <<"T", "h", "e", " ", "F", "e", "a", "s", "t">>
ForgeArc(text) == [ForgeEmpty EXCEPT !.arc_event = text]
ArcMsgs == {ForgeMsg(<<"f">>, ForgeArc(TheRaid)), ForgeMsg(<<"g">>, ForgeArc(TheFeast)),
            ForgeMsg(<<"h">>, ForgeDate)}

NextArc ==
    \/ \E m \in ArcMsgs : onMessageReceived(<<m>>)
    \/ \E id \in 1..MaxUid : acceptChange(id)
    \/ \E id \in 1..MaxUid : denyChange(id)
    \/ acceptAll

SpecArc == Init /\ [][NextArc]_vars

Records(store, evId, status) ==
    \E i \in 1..Len(store.arc_events) :
        /\ store.arc_events[i].id = evId
        /\ store.arc_events[i].player_status = status

\* C36: after an arc_events change for event id E with status S is accepted,
\* the arc-events document records E under the current arc with
\* player_status S, whether or not the arc had E before the accept.
AcceptedEventRecorded ==
    [][/\ \A id \in Ids :
              (/\ InQueue(id) /\ Queued(id).type = "arc_event"
               /\ acceptChange(id)) =>
                  Records(gistFiles', Queued(id).evId, Queued(id).s)
       /\ acceptAll =>
              \A i \in 1..Len(pendingQueue) :
                  pendingQueue[i].type = "arc_event" =>
                      Records(gistFiles', pendingQueue[i].evId, pendingQueue[i].s)]_vars

\* the same for the events the arc already had
KnownEventRecorded ==
    [][\A id \in Ids :
           (/\ InQueue(id) /\ Queued(id).type = "arc_event"
            /\ \E i \in 1..Len(gistFiles.arc_events) :
                   gistFiles.arc_events[i].id = Queued(id).evId
            /\ acceptChange(id)) =>
               Records(gistFiles', Queued(id).evId, Queued(id).s)]_vars

\* the change for the event the arc did not have was accepted and left the
\* queue: the document has the one event it had, and nothing for the new one
NewEventNotRecorded ==
    /\ last.ran = <<1>> /\ last.persist /\ pendingQueue = <<>> /\ nextUid = 1
    /\ lastMessageText = <<"g">>
    /\ Len(gistFiles.arc_events) = 1
    /\ ~\E i \in 1..Len(gistFiles.arc_events) :
           gistFiles.arc_events[i].id = eventKey(TheFeast)

----------------------------------------------------------------------------
(* The last-processed-message marker *)

\* C37: a message that is ignored because an extraction or a rescan is active,
\* or because no world state is loaded, leaves the last-processed-message
\* marker as it was (so that a later delivery of the same message is
\* processed); a message whose text equals the marker starts no extraction
\* and proposes nothing.
IgnoredMessageNotMarked ==
    [][\A m \in RescanMsgs :
           /\ (ExtractionBlocked /\ Arrives(m)) => lastMessageText' = lastMessageText
           /\ (cleanTextOf(m) = lastMessageText /\ onMessageReceived(<<m>>)) =>
                  UNCHANGED <<pendingQueue, proc, isExtracting, nextUid>>]_vars

\* the second half: a message whose text equals the marker is not extracted
MarkedMessageNotExtracted ==
    [][\A m \in RescanMsgs :
           (cleanTextOf(m) = lastMessageText /\ onMessageReceived(<<m>>)) =>
               UNCHANGED <<pendingQueue, proc, isExtracting, nextUid>>]_vars

\* the scan during which the message with the structured block arrived is
\* over: the message is marked as processed, and nothing was ever proposed
MarkedButNeverProcessed ==
    /\ ~isRescanning /\ ~isExtracting
    /\ \A p \in Procs : proc[p].pc = "idle"
    /\ lastMessageText = <<"f">>
    /\ pendingQueue = <<>> /\ nextUid = 0

----------------------------------------------------------------------------
(* Cancellation of a rescan *)

\* C38: once cancellation has been requested during a rescan, that rescan
\* enqueues nothing more: the response of a call that was in flight at that
\* moment is discarded, and until the rescan has ended the queue changes only
\* by what the user accepts or denies.
NothingQueuedAfterCancel ==
    [][(rescanAbort /\ isRescanning /\ ~DenyStep /\ ~AcceptStep)
           => pendingQueue' = pendingQueue]_vars

\* the rescan was cancelled while its call was in flight and has ended: the
\* change the response proposed is in the queue
QueuedAfterCancel ==
    /\ rescanAbort /\ ~isRescanning
    /\ \A p \in Procs : proc[p].pc = "idle"
    /\ lastMessageText = <<>>
    /\ Len(pendingQueue) = 1 /\ nextUid = 1
    /\ last.calls = 1

----------------------------------------------------------------------------
(* Frame of acceptChange and denyChange *)

DistinctIds(queue) ==
    \A i, j \in 1..Len(queue) : i # j => queue[i].id # queue[j].id
RaisesOn(id) == applyFn(gistFiles, Queued(id)).raised

\* C39 as stated: queue items have pairwise distinct ids; acceptChange(id) and
\* denyChange(id) remove exactly the item with that id and keep every other
\* item in its order; with an id that is not in the queue they change neither
\* the queue nor the store and schedule no push.
ExactlyThatItemRemoved ==
    [][/\ DistinctIds(pendingQueue')
       /\ \A id \in Ids :
              (acceptChange(id) \/ denyChange(id)) =>
                  IF InQueue(id)
                  THEN pendingQueue' = Without(pendingQueue, id)
                  ELSE UNCHANGED <<pendingQueue, gistFiles, syncTimer, timerLeft>>]_vars

\* C39, amended: as above, except that an acceptChange(id) whose commit raises
\* removes nothing: the queue is as it was, the failed item included, and no
\* push is scheduled.
ThatItemRemovedUnlessCommitRaises ==
    [][/\ DistinctIds(pendingQueue')
       /\ \A id \in Ids :
              /\ denyChange(id) =>
                     IF InQueue(id)
                     THEN /\ pendingQueue' = Without(pendingQueue, id)
                          /\ UNCHANGED <<gistFiles, syncTimer, timerLeft>>
                     ELSE UNCHANGED <<pendingQueue, gistFiles, syncTimer, timerLeft>>
              /\ acceptChange(id) =>
                     IF InQueue(id) /\ ~RaisesOn(id)
                     THEN pendingQueue' = Without(pendingQueue, id)
                     ELSE UNCHANGED <<pendingQueue, syncTimer, timerLeft>>
              /\ (acceptChange(id) /\ ~InQueue(id)) => UNCHANGED gistFiles]_vars

\* the second of three queued changes was accepted: the first and the third
\* are left, in that order
MiddleItemRemoved ==
    /\ IdsOf(pendingQueue) = <<1, 3>>
    /\ last.ran = <<2>> /\ last.persist
    /\ syncTimer /\ timerLeft = DelayTicks

============================================================================
